---------------------------- MODULE Spec2Model ----------------------------
(***************************************************************************)
(* A model of the CSV editing core (src/csv_editor.py, class CsvEditor),   *)
(* of its Qt twin (src/model.py) and of the front ends around them         *)
(* (src/cli.py, src/main.py, src/gui.py).                                  *)
(*                                                                         *)
(* A string is a sequence of one-character strings, so "" is << >> and     *)
(* "ab" is <<"a", "b">>.  The document is the pair (headers, rows):        *)
(* headers is a sequence of strings (CsvEditor._headers) and rows is a     *)
(* sequence of sequences of strings (CsvEditor._data).  Python's 0-based   *)
(* index i names the TLA+ position i + 1.                                  *)
(***************************************************************************)
EXTENDS Integers, Sequences, FiniteSets, TLC

VARIABLES
    headers,    \* CsvEditor._headers
    rows,       \* CsvEditor._data
    fs,         \* the file system: path -> [exists, data]
    saved,      \* the document as it was when save_to_csv last wrote fs["out"]
    op,         \* the method called last
    args,       \* its arguments
    ret,        \* its outcome: "true", "false", "none", "value" for a string
                \* returned, or the exception raised
    val,        \* the string returned by get_cell or get_header; for view_data
                \* the text returned, with the lists it was built from
    pre,        \* the document before that call: [h |-> headers, r |-> rows]
    given,      \* the lists the caller holds: [h |-> a header list, r |-> a data list]
    shared,     \* whether _headers (h) and _data with its rows (r) are those lists
    gui         \* the window around the document: its flags, its file path,
                \* its pending timers and what its last handler went through

vars == <<headers, rows, fs, saved, op, args, ret, val, pre, given, shared, gui>>

---------------------------------------------------------------------------
(* Bounds of the model. *)

\* The most rows a document of the model holds.
MaxRows == 2
\* The most columns (header slots, cells of a row) a document of the model holds.
MaxCols == 2
\* The most list elements (header slots, rows and cells together) a document of
\* the model holds.
MaxSize == 7
\* The largest count given to a structural operation.
MaxCount == 2

RowIdx == -1 .. MaxRows
ColIdx == -1 .. MaxCols
Counts == 1 .. MaxCount
\* The indices given to get_header: one more step before the start.
HeaderIdx == -2 .. MaxCols

\* The strings written into cells and headers.
EMPTY == << >>
X == <<"x">>
Values == {EMPTY, X}
HeaderSets == {<< >>, <<X>>, <<X, EMPTY>>}

---------------------------------------------------------------------------
(* Python list operations, as the interpreter performs them. *)

\* [x] * n
Repeat(x, n) == [k \in 1 .. (IF n > 0 THEN n ELSE 0) |-> x]

\* list.insert(i, x): the index is clamped to the list.
ListInsert(s, i, x) ==
    LET j == IF i < 0 THEN i + Len(s) ELSE i
        k == IF j < 0 THEN 0 ELSE IF j > Len(s) THEN Len(s) ELSE j
    IN  SubSeq(s, 1, k) \o <<x>> \o SubSeq(s, k + 1, Len(s))

\* Whether s[i] exists: a negative index counts from the end.
InRange(s, i) == -Len(s) <= i /\ i < Len(s)

\* The position of s[i] when it exists.
Pos(s, i) == IF i < 0 THEN i + Len(s) + 1 ELSE i + 1

\* list.pop(i), for an index in range.
ListPop(s, i) == SubSeq(s, 1, Pos(s, i) - 1) \o SubSeq(s, Pos(s, i) + 1, Len(s))

\* s[i] = x, for an index in range.
ListSet(s, i, x) == [s EXCEPT ![Pos(s, i)] = x]

Max2(a, b) == IF a >= b THEN a ELSE b

RECURSIVE MaxLen(_)
\* max(len(r) for r in rs), 0 for no rows
MaxLen(rs) ==
    IF rs = << >> THEN 0 ELSE Max2(Len(Head(rs)), MaxLen(Tail(rs)))

\* The outcome of a call: the document it leaves and what it returns.
Out(h, r, result) == [h |-> h, r |-> r, ret |-> result, val |-> << >>]

\* The outcome of a call that returns the string v.
OutValue(h, r, v) == [h |-> h, r |-> r, ret |-> "value", val |-> v]

---------------------------------------------------------------------------
(* CsvEditor's methods, as functions of the document. *)

row_count(h, r) == Len(r)

column_count(h, r) ==
    IF h # << >> THEN Len(h)
    ELSE IF r # << >> THEN Len(r[1]) ELSE 0

\* Mutant: a negative col is not turned away and indexes the row from its end.
get_cell_NegativeFromEnd(h, r, row, col) ==
    IF row < 0 \/ row >= Len(r) THEN EMPTY
    ELSE IF col >= Len(r[row + 1]) \/ ~InRange(r[row + 1], col) THEN EMPTY
    ELSE r[row + 1][Pos(r[row + 1], col)]

get_cell(h, r, row, col) ==
    IF row < 0 \/ row >= Len(r) THEN EMPTY
    ELSE IF col < 0 \/ col >= Len(r[row + 1]) THEN EMPTY
    ELSE r[row + 1][col + 1]

RECURSIVE Digits(_)
\* The decimal digits of a natural number.
Digits(n) ==
    LET d == <<"0", "1", "2", "3", "4", "5", "6", "7", "8", "9">>[(n % 10) + 1]
    IN  IF n < 10 THEN <<d>> ELSE Append(Digits(n \div 10), d)

\* str(n)
Str(n) == IF n < 0 THEN <<"-">> \o Digits(-n) ELSE Digits(n)

\* f"Column {col + 1}"
Placeholder(col) == <<"C", "o", "l", "u", "m", "n", " ">> \o Str(col + 1)

\* get_header: only the upper bound of col is tested, so a negative col
\* indexes the headers from the end, or raises when it is before the start.
get_header(h, r, col) ==
    IF h # << >> /\ col < Len(h)
    THEN IF InRange(h, col) THEN OutValue(h, r, h[Pos(h, col)])
         ELSE Out(h, r, "IndexError")
    ELSE OutValue(h, r, Placeholder(col))

\* Mutant: the loop stops one cell early.
SetCellGrow_OneShort(cur, col) ==
    IF col > Len(cur) THEN cur \o Repeat(EMPTY, col - Len(cur)) ELSE cur

\* The while loop of set_cell: append "" until col is an index of the row.
SetCellGrow(cur, col) ==
    IF col >= Len(cur) THEN cur \o Repeat(EMPTY, col - Len(cur) + 1) ELSE cur

set_cell(h, r, row, col, value) ==
    IF row < 0 \/ row >= Len(r) THEN Out(h, r, "false")
    ELSE LET grown == SetCellGrow(r[row + 1], col)
         IN  IF ~InRange(grown, col) THEN Out(h, r, "IndexError")
             ELSE Out(h, [r EXCEPT ![row + 1] = ListSet(grown, col, value)], "true")

set_header(h, r, col, value) ==
    LET grown == IF col >= Len(h) THEN h \o Repeat(EMPTY, col - Len(h) + 1) ELSE h
    IN  IF ~InRange(grown, col) THEN Out(h, r, "IndexError")
        ELSE Out(ListSet(grown, col, value), r, "true")

RECURSIVE InsertRowLoop(_, _, _, _)
InsertRowLoop(r, row, cols, n) ==
    IF n <= 0 THEN r
    ELSE InsertRowLoop(ListInsert(r, row, Repeat(EMPTY, cols)), row, cols, n - 1)

\* Mutant: the new rows are sized by len(headers), not by column_count().
insert_row_HeaderWidth(h, r, row, count) ==
    IF row < 0 \/ row > Len(r) THEN Out(h, r, "false")
    ELSE Out(h, InsertRowLoop(r, row, Len(h), count), "true")

insert_row(h, r, row, count) ==
    IF row < 0 \/ row > Len(r) THEN Out(h, r, "false")
    ELSE Out(h, InsertRowLoop(r, row, column_count(h, r), count), "true")

RECURSIVE RemoveRowLoop_Advancing(_, _, _)
\* Mutant: the index moves on after each removal, skipping every other row.
RemoveRowLoop_Advancing(r, row, n) ==
    IF n <= 0 THEN r
    ELSE RemoveRowLoop_Advancing(IF row < Len(r) THEN ListPop(r, row) ELSE r,
                                 row + 1, n - 1)

RECURSIVE RemoveRowLoop(_, _, _)
RemoveRowLoop(r, row, n) ==
    IF n <= 0 THEN r
    ELSE RemoveRowLoop(IF row < Len(r) THEN ListPop(r, row) ELSE r, row, n - 1)

\* Mutant: the bounds test admits row == row_count().
remove_row_AcceptsEnd(h, r, row, count) ==
    IF row < 0 \/ row > Len(r) THEN Out(h, r, "false")
    ELSE Out(h, RemoveRowLoop(r, row, count), "true")

remove_row(h, r, row, count) ==
    IF row < 0 \/ row >= Len(r) THEN Out(h, r, "false")
    ELSE Out(h, RemoveRowLoop(r, row, count), "true")

RECURSIVE InsertN(_, _, _)
\* for _ in range(n): s.insert(i, "")
InsertN(s, i, n) ==
    IF n <= 0 THEN s ELSE InsertN(ListInsert(s, i, EMPTY), i, n - 1)

\* Mutant: missing headers are not synthesized before the insertion.
EnsureHeaders_Skipped(h, r) == h

\* "Ensure headers exist" of insert_column.
EnsureHeaders(h, r) ==
    IF h = << >> THEN Repeat(EMPTY, column_count(h, r)) ELSE h

insert_column(h, r, col, count) ==
    IF col < 0 THEN Out(h, r, "false")
    ELSE Out(InsertN(EnsureHeaders(h, r), col, count),
             [k \in 1 .. Len(r) |-> InsertN(r[k], col, count)],
             "true")

\* Mutant: the first header slot is removed, whatever the index.
RemoveHeaderOnce_First(h, col) ==
    IF h # << >> /\ col < Len(h) THEN ListPop(h, 0) ELSE h

\* One pass of remove_column's loop over the headers.
RemoveHeaderOnce(h, col) ==
    IF h # << >> /\ col < Len(h) THEN ListPop(h, col) ELSE h

\* Mutant: the bounds test is off by one, so a row's last cell is never removed.
RemoveCellOnce_OffByOne(row, col) ==
    IF col < Len(row) - 1 THEN ListPop(row, col) ELSE row

\* One pass of remove_column's loop over a row.
RemoveCellOnce(row, col) ==
    IF col < Len(row) THEN ListPop(row, col) ELSE row

RECURSIVE RemoveColumnLoop(_, _, _, _)
RemoveColumnLoop(h, r, col, n) ==
    IF n <= 0 THEN [h |-> h, r |-> r]
    ELSE RemoveColumnLoop(RemoveHeaderOnce(h, col),
                          [k \in 1 .. Len(r) |-> RemoveCellOnce(r[k], col)],
                          col, n - 1)

remove_column(h, r, col, count) ==
    IF col < 0 THEN Out(h, r, "false")
    ELSE LET d == RemoveColumnLoop(h, r, col, count)
         IN  Out(d.h, d.r, "true")

\* Mutant: only a cell that exists is cleared; the row is never widened.
clear_cell_ExistingOnly(h, r, row, col) ==
    IF row < 0 \/ row >= Len(r) THEN Out(h, r, "false")
    ELSE IF col >= Len(r[row + 1]) THEN Out(h, r, "false")
    ELSE set_cell(h, r, row, col, EMPTY)

clear_cell(h, r, row, col) == set_cell(h, r, row, col, EMPTY)

\* Mutant: the data rows are kept.
new_sheet_with_defaults_KeepsRows(h, r, default_headers) ==
    Out(default_headers, r, "none")

new_sheet_with_defaults(h, r, default_headers) ==
    Out(default_headers, << >>, "none")

---------------------------------------------------------------------------
(* The CSV text format, as Python's csv module reads and writes it under   *)
(* its default dialect: delimiter ",", quote character '"', doubled quotes *)
(* inside quoted fields, minimal quoting, line terminator "\r\n".          *)

COMMA == ","
QUOTE == "\""
CR == "\r"
LF == "\n"
\* The byte-order mark, which the utf-8-sig decoder strips from the start.
BOM == "BOM"
\* The end-of-line marker the reader feeds its state machine after each line.
EOL == "EOL"
\* A byte that is not valid UTF-8.
INVALID == "INVALID"

\* csv.writer: a field is quoted when it holds a delimiter, a quote or a
\* character of the line terminator.
NeedsQuote(field) ==
    \E k \in 1 .. Len(field) : field[k] \in {COMMA, QUOTE, CR, LF}

\* Mutant: a quote inside a field is written once, not doubled.
DoubleQuotes_Single(field) == field

RECURSIVE DoubleQuotes(_)
DoubleQuotes(field) ==
    IF field = << >> THEN << >>
    ELSE (IF Head(field) = QUOTE THEN <<QUOTE, QUOTE>> ELSE <<Head(field)>>)
         \o DoubleQuotes(Tail(field))

WriteField(field) ==
    IF NeedsQuote(field) THEN <<QUOTE>> \o DoubleQuotes(field) \o <<QUOTE>>
    ELSE field

RECURSIVE JoinFields(_)
JoinFields(fields) ==
    IF fields = << >> THEN << >>
    ELSE IF Len(fields) = 1 THEN WriteField(fields[1])
    ELSE WriteField(Head(fields)) \o <<COMMA>> \o JoinFields(Tail(fields))

\* Mutant: a record of one empty field is written as an empty line.
WriteRow_NoEmptyFieldQuote(fields) == JoinFields(fields) \o <<CR, LF>>

\* csv.writer.writerow: a record of one empty field is written as "".
WriteRow(fields) ==
    LET body == JoinFields(fields)
    IN  (IF Len(fields) > 0 /\ body = << >> THEN <<QUOTE, QUOTE>> ELSE body)
        \o <<CR, LF>>

RECURSIVE WriteRows(_)
WriteRows(recs) ==
    IF recs = << >> THEN << >> ELSE WriteRow(Head(recs)) \o WriteRows(Tail(recs))

\* csv.reader's state machine.
ReaderStart == [state |-> "START_RECORD", field |-> << >>, fields |-> << >>,
                recs |-> << >>]

SaveField(st) == [st EXCEPT !.fields = Append(@, st.field), !.field = << >>]

AddChar(st, c) == [st EXCEPT !.field = Append(@, c)]

AfterNewline(c) == IF c = EOL THEN "START_RECORD" ELSE "EAT_CRNL"

StartField(st, c) ==
    IF c \in {LF, CR, EOL} THEN [SaveField(st) EXCEPT !.state = AfterNewline(c)]
    ELSE IF c = QUOTE THEN [st EXCEPT !.state = "IN_QUOTED_FIELD"]
    ELSE IF c = COMMA THEN [SaveField(st) EXCEPT !.state = "START_FIELD"]
    ELSE [AddChar(st, c) EXCEPT !.state = "IN_FIELD"]

ProcessChar(st, c) ==
    CASE st.state = "START_RECORD" ->
            IF c = EOL THEN st
            ELSE IF c \in {LF, CR} THEN [st EXCEPT !.state = "EAT_CRNL"]
            ELSE StartField(st, c)
      [] st.state = "START_FIELD" -> StartField(st, c)
      [] st.state = "IN_FIELD" ->
            IF c \in {LF, CR, EOL}
            THEN [SaveField(st) EXCEPT !.state = AfterNewline(c)]
            ELSE IF c = COMMA THEN [SaveField(st) EXCEPT !.state = "START_FIELD"]
            ELSE AddChar(st, c)
      [] st.state = "IN_QUOTED_FIELD" ->
            IF c = EOL THEN st
            ELSE IF c = QUOTE THEN [st EXCEPT !.state = "QUOTE_IN_QUOTED_FIELD"]
            ELSE AddChar(st, c)
      [] st.state = "QUOTE_IN_QUOTED_FIELD" ->
            IF c = QUOTE THEN [AddChar(st, c) EXCEPT !.state = "IN_QUOTED_FIELD"]
            ELSE IF c = COMMA THEN [SaveField(st) EXCEPT !.state = "START_FIELD"]
            ELSE IF c \in {LF, CR, EOL}
            THEN [SaveField(st) EXCEPT !.state = AfterNewline(c)]
            ELSE [AddChar(st, c) EXCEPT !.state = "IN_FIELD"]
      [] st.state = "EAT_CRNL" ->
            IF c \in {LF, CR} THEN st
            ELSE IF c = EOL THEN [st EXCEPT !.state = "START_RECORD"]
            ELSE [st EXCEPT !.state = "ERROR"]
      [] OTHER -> st

\* The end of a line: the record is complete unless a quoted field is open.
EndLine(st) ==
    LET s == ProcessChar(st, EOL)
    IN  IF s.state = "START_RECORD"
        THEN [s EXCEPT !.recs = Append(@, s.fields), !.fields = << >>]
        ELSE s

\* Whether the line ends after text[i]: the file is opened with newline="",
\* so lines end at "\n", "\r\n", a lone "\r" or the end of the file.
LineEndsAt(text, i) ==
    \/ text[i] = LF
    \/ text[i] = CR /\ (i = Len(text) \/ text[i + 1] # LF)
    \/ i = Len(text)

\* The end of the input: an open field is kept as the last record.
ReaderFinish(st) ==
    IF st.field # << >> \/ st.state = "IN_QUOTED_FIELD"
    THEN Append(st.recs, Append(st.fields, st.field))
    ELSE st.recs

RECURSIVE ReaderFeed(_, _, _)
\* The characters are fed one by one; the reader stops at one it rejects.
ReaderFeed(text, i, st) ==
    IF i > Len(text) \/ st.state = "ERROR" THEN ReaderFinish(st)
    ELSE LET s == ProcessChar(st, text[i])
         IN  ReaderFeed(text, i + 1, IF LineEndsAt(text, i) THEN EndLine(s) ELSE s)

\* encoding="utf-8-sig": a leading byte-order mark is not data.
Decode(text) == IF text # << >> /\ Head(text) = BOM THEN Tail(text) ELSE text

\* list(csv.reader(f))
ReadCsv(text) == ReaderFeed(Decode(text), 1, ReaderStart)

\* Mutant: nothing is appended.
PadTo_NoPadding(s, n) == s

\* r + [""] * (n - len(r))
PadTo(s, n) == s \o Repeat(EMPTY, n - Len(s))

\* Mutant: the width is the header record's, whatever the data rows hold.
max_cols_HeaderOnly(h, data) == Len(h)

\* max_cols of load_from_csv and of save_to_csv.
max_cols(h, data) ==
    IF data # << >> THEN Max2(Len(h), MaxLen(data)) ELSE Len(h)

\* A file: whether it can be opened, and its text.
NoFile == [exists |-> FALSE, data |-> << >>]
File(text) == [exists |-> TRUE, data |-> text]

\* Mutant: the first record is kept among the data rows as well.
LoadedDoc_HeaderAlsoRow(recs) ==
    LET rs == IF recs = << >> THEN << << >> >> ELSE recs
        hd == Head(rs)
        data == rs
        w == max_cols(hd, data)
    IN  [h |-> PadTo(hd, w), r |-> [k \in 1 .. Len(data) |-> PadTo(data[k], w)]]

\* The headers and rows load_from_csv builds from the parsed records.
LoadedDoc(recs) ==
    LET rs == IF recs = << >> THEN << << >> >> ELSE recs
        hd == Head(rs)
        data == Tail(rs)
        w == max_cols(hd, data)
    IN  [h |-> PadTo(hd, w), r |-> [k \in 1 .. Len(data) |-> PadTo(data[k], w)]]

\* Whether the decoder meets a byte it cannot decode.
Undecodable(text) == \E k \in 1 .. Len(text) : text[k] = INVALID

\* Mutant: the headers are dropped as soon as the file is open, before the
\* records are read.
load_from_csv_ClearsHeadersFirst(h, r, file) ==
    IF ~file.exists THEN Out(h, r, "FileNotFoundError")
    ELSE IF Undecodable(file.data) THEN Out(<< >>, r, "UnicodeDecodeError")
    ELSE LET d == LoadedDoc(ReadCsv(file.data))
         IN  Out(d.h, d.r, "none")

\* load_from_csv: open and the reading of the records raise before anything
\* is assigned; _headers and _data are assigned last, one after the other.
load_from_csv(h, r, file) ==
    IF ~file.exists THEN Out(h, r, "FileNotFoundError")
    ELSE IF Undecodable(file.data) THEN Out(h, r, "UnicodeDecodeError")
    ELSE LET d == LoadedDoc(ReadCsv(file.data))
         IN  Out(d.h, d.r, "none")

\* No column order given to save_to_csv.
NoOrder == [given |-> FALSE, order |-> << >>]
Order(seq) == [given |-> TRUE, order |-> seq]

\* [rec[i] for i in column_order]
Permute(rec, order) == [k \in 1 .. Len(order) |-> rec[Pos(rec, order[k])]]

\* The records save_to_csv hands to the writer: the header, then the rows.
SavedRecords(h, r, column_order) ==
    LET w == max_cols(h, r)
        hd == PadTo(h, w)
        data == [k \in 1 .. Len(r) |-> PadTo(r[k], w)]
    IN  IF column_order.given /\ column_order.order # << >>
        THEN <<Permute(hd, column_order.order)>>
             \o [k \in 1 .. Len(data) |-> Permute(data[k], column_order.order)]
        ELSE <<hd>> \o data

\* Whether every index of the column order names a column of the padded records.
OrderInRange(h, r, column_order) ==
    \/ ~column_order.given
    \/ \A k \in 1 .. Len(column_order.order) :
          InRange(Repeat(EMPTY, max_cols(h, r)), column_order.order[k])

\* The paths that cannot be opened for writing.
Unwritable == {"locked"}

\* Mutant: the headers and the rows are padded in place, not as copies.
save_to_csv_PadsInPlace(h, r, path, column_order) ==
    LET w == max_cols(h, r)
        hd == PadTo(h, w)
        data == [k \in 1 .. Len(r) |-> PadTo(r[k], w)]
    IN  IF ~OrderInRange(h, r, column_order)
        THEN [h |-> hd, r |-> data, ret |-> "IndexError", written |-> FALSE,
              text |-> << >>]
        ELSE IF path \in Unwritable
        THEN [h |-> hd, r |-> data, ret |-> "PermissionError",
              written |-> FALSE, text |-> << >>]
        ELSE [h |-> hd, r |-> data, ret |-> "none", written |-> TRUE,
              text |-> WriteRows(SavedRecords(h, r, column_order))]

\* save_to_csv: the document it leaves, the outcome and the text written.  The
\* records are built as new lists, the column order is applied before the file
\* is opened, and the file is opened before anything is written.
save_to_csv(h, r, path, column_order) ==
    IF ~OrderInRange(h, r, column_order)
    THEN [h |-> h, r |-> r, ret |-> "IndexError", written |-> FALSE,
          text |-> << >>]
    ELSE IF path \in Unwritable
    THEN [h |-> h, r |-> r, ret |-> "PermissionError", written |-> FALSE,
          text |-> << >>]
    ELSE [h |-> h, r |-> r, ret |-> "none", written |-> TRUE,
          text |-> WriteRows(SavedRecords(h, r, column_order))]

---------------------------------------------------------------------------
(* view_data: the plain-text rendering. *)

\* s[:k]: a negative k counts from the end.
SliceTo(s, k) ==
    LET e == IF k < 0 THEN Max2(Len(s) + k, 0)
             ELSE IF k > Len(s) THEN Len(s) ELSE k
    IN  SubSeq(s, 1, e)

DOTS == <<".", ".", ".">>

\* if len(s) > max_col_width: s = s[: max_col_width - 3] + "..."
Truncate(s, max_col_width) ==
    IF Len(s) > max_col_width THEN SliceTo(s, max_col_width - 3) \o DOTS ELSE s

\* s.ljust(n)
Ljust(s, n) == s \o Repeat(" ", n - Len(s))

RECURSIVE JoinWith(_, _)
\* sep.join(items)
JoinWith(sep, items) ==
    IF items = << >> THEN << >>
    ELSE IF Len(items) = 1 THEN items[1]
    ELSE Head(items) \o sep \o JoinWith(sep, Tail(items))

RECURSIVE MaxCellLen(_, _)
\* max(len(row[c]) for row in display_rows)
MaxCellLen(display_rows, c) ==
    IF display_rows = << >> THEN 0
    ELSE Max2(Len(Head(display_rows)[c + 1]), MaxCellLen(Tail(display_rows), c))

NO_DATA == <<"N", "o", " ", "d", "a", "t", "a", " ", "l", "o", "a", "d", "e", "d", ".">>
SEP == <<" ", "|", " ">>
TOTAL == <<"T", "o", "t", "a", "l", ":", " ">>
ROWS_ == <<" ", "r", "o", "w", "s", ",", " ">>
COLUMNS_ == <<" ", "c", "o", "l", "u", "m", "n", "s">>
MORE_OPEN == <<".", ".", ".", " ", "(">>
MORE_CLOSE == <<" ", "m", "o", "r", "e", " ", "r", "o", "w", "s", ")">>

\* f"... ({self.row_count() - max_rows} more rows)"
MoreRows(count, max_rows) == MORE_OPEN \o Str(count - max_rows) \o MORE_CLOSE

\* min(max_rows, self.row_count()), as range() uses it: never below 0.
RowLimit(h, r, max_rows) ==
    LET m == IF max_rows < row_count(h, r) THEN max_rows ELSE row_count(h, r)
    IN  IF m < 0 THEN 0 ELSE m

\* view_data: the truncated headers, the truncated cells of the rows shown,
\* the column widths, the lines and the text they are joined into.
view_data(h, r, max_rows, max_col_width) ==
    IF r = << >> /\ h = << >>
    THEN OutValue(h, r, [headers |-> << >>, display_rows |-> << >>,
                         col_widths |-> << >>, lines |-> <<NO_DATA>>,
                         text |-> NO_DATA])
    ELSE LET cols == column_count(h, r)
             hs == [c \in 1 .. cols |->
                       Truncate(get_header(h, r, c - 1).val, max_col_width)]
             disp == [k \in 1 .. RowLimit(h, r, max_rows) |->
                         [c \in 1 .. cols |->
                             Truncate(get_cell(h, r, k - 1, c - 1), max_col_width)]]
             width(c) ==
                 Max2(IF c < Len(hs) THEN Len(hs[c + 1]) ELSE 0,
                      IF disp # << >> /\ c < Len(disp[1])
                      THEN MaxCellLen(disp, c) ELSE 0)
             widths == [c \in 1 .. cols |->
                           IF width(c - 1) < max_col_width THEN width(c - 1)
                           ELSE max_col_width]
             Line(rec) == JoinWith(SEP, [c \in 1 .. Len(rec) |->
                                            Ljust(rec[c], widths[c])])
             header_line == Line(hs)
             lines == <<header_line, Repeat("-", Len(header_line))>>
                      \o [k \in 1 .. Len(disp) |-> Line(disp[k])]
                      \o (IF row_count(h, r) > max_rows
                          THEN <<MoreRows(row_count(h, r), max_rows)>>
                          ELSE << >>)
                      \o << <<LF>> \o TOTAL \o Str(row_count(h, r)) \o ROWS_
                            \o Str(cols) \o COLUMNS_ >>
         IN  OutValue(h, r, [headers |-> hs, display_rows |-> disp,
                             col_widths |-> widths, lines |-> lines,
                             text |-> JoinWith(<<LF>>, lines)])

---------------------------------------------------------------------------
(* CsvTableModel's methods, as functions of the document.  The Qt model     *)
(* keeps the same two lists, _headers and _data.                            *)

rowCount(h, r) == Len(r)

columnCount(h, r) ==
    IF h # << >> THEN Len(h)
    ELSE IF r # << >> THEN Len(r[1]) ELSE 0

\* model.index(row, col): a valid index names a cell inside rowCount() and
\* columnCount(); any other pair gives the invalid index.
index(h, r, row, col) ==
    [valid |-> /\ 0 <= row /\ row < rowCount(h, r)
               /\ 0 <= col /\ col < columnCount(h, r),
     row |-> row, col |-> col]

\* setData(index, value, EditRole)
setData(h, r, idx, value) ==
    IF ~idx.valid THEN Out(h, r, "false")
    ELSE LET grown == SetCellGrow(r[idx.row + 1], idx.col)
         IN  Out(h, [r EXCEPT ![idx.row + 1] = ListSet(grown, idx.col, value)],
                 "true")

\* setHeaderData(section, Horizontal, value, EditRole)
setHeaderData(h, r, section, value) ==
    LET grown == IF section >= Len(h)
                 THEN h \o Repeat(EMPTY, section - Len(h) + 1) ELSE h
    IN  IF ~InRange(grown, section) THEN Out(h, r, "IndexError")
        ELSE Out(ListSet(grown, section, value), r, "true")

insertRows(h, r, row, count) ==
    Out(h, InsertRowLoop(r, row, columnCount(h, r), count), "true")

RECURSIVE RemoveRowsLoop(_, _, _)
RemoveRowsLoop(r, row, n) ==
    IF n <= 0 THEN r
    ELSE RemoveRowsLoop(IF 0 <= row /\ row < Len(r) THEN ListPop(r, row) ELSE r,
                        row, n - 1)

removeRows(h, r, row, count) == Out(h, RemoveRowsLoop(r, row, count), "true")

insertColumns(h, r, column, count) ==
    Out(InsertN(IF h = << >> THEN Repeat(EMPTY, columnCount(h, r)) ELSE h,
                column, count),
        [k \in 1 .. Len(r) |-> InsertN(r[k], column, count)],
        "true")

RECURSIVE RemoveColumnsLoop(_, _, _, _)
RemoveColumnsLoop(h, r, column, n) ==
    IF n <= 0 THEN [h |-> h, r |-> r]
    ELSE RemoveColumnsLoop(
             IF h # << >> /\ 0 <= column /\ column < Len(h)
             THEN ListPop(h, column) ELSE h,
             [k \in 1 .. Len(r) |->
                 IF 0 <= column /\ column < Len(r[k])
                 THEN ListPop(r[k], column) ELSE r[k]],
             column, n - 1)

removeColumns(h, r, column, count) ==
    LET d == RemoveColumnsLoop(h, r, column, count)
    IN  Out(d.h, d.r, "true")

---------------------------------------------------------------------------
(* CsvCLI's commands that do more than pass their arguments on. *)

\* CsvCLI.insert_column(col, header): insert one column, then label it.
CsvCLI_insert_column(h, r, col, header) ==
    LET inserted == insert_column(h, r, col, 1)
    IN  IF inserted.ret = "true"
        THEN IF header # EMPTY
             THEN LET labelled == set_header(inserted.h, inserted.r, col, header)
                  IN  IF labelled.ret = "true"
                      THEN Out(labelled.h, labelled.r, "true")
                      ELSE labelled
             ELSE inserted
        ELSE Out(inserted.h, inserted.r, "false")

---------------------------------------------------------------------------
(* The editor as a state machine: one action per public method. *)

RECURSIVE CellCount(_)
CellCount(r) == IF r = << >> THEN 0 ELSE Len(Head(r)) + CellCount(Tail(r))

\* Whether a document is within the bounds of the model.
Fits(h, r) ==
    /\ Len(h) <= MaxCols
    /\ Len(r) <= MaxRows
    /\ \A k \in 1 .. Len(r) : Len(r[k]) <= MaxCols
    /\ Len(h) + Len(r) + CellCount(r) <= MaxSize

NoArgs == [row |-> 0, col |-> 0, count |-> 0, value |-> EMPTY,
           list |-> << >>, path |-> "", order |-> NoOrder,
           max_rows |-> 0, max_col_width |-> 0]

\* The caller holds no list of the document's.
NoLists == [h |-> << >>, r |-> << >>]
NotShared == [h |-> FALSE, r |-> FALSE]

NoDoc == [valid |-> FALSE, h |-> << >>, r |-> << >>, order |-> NoOrder]

\* No window: the editor is used through its methods alone.
NoGui == [front |-> "none", open |-> FALSE, dirty |-> FALSE, path |-> "",
          timers |-> 0, edits |-> 0, edited |-> FALSE, prompt |-> "none", save |-> "none",
          discarded |-> FALSE, was |-> [dirty |-> FALSE, path |-> ""]]

\* The files the editor can be pointed at; "missing" does not exist.
SampleFiles ==
    [path \in {"empty", "header", "wide", "short", "blank", "garbled",
               "missing"} |->
        CASE path = "empty" -> File(<< >>)
          [] path = "header" -> File(<<"x", COMMA, CR, LF>>)
          [] path = "wide" -> File(<<"x", CR, LF, COMMA, "x", CR, LF>>)
          [] path = "short" -> File(<<BOM, "x", COMMA, "x", LF, "x", LF, LF>>)
          [] path = "blank" -> File(<<CR, LF, CR, LF>>)
          [] path = "garbled" -> File(<<"x", COMMA, INVALID, LF>>)
          [] OTHER -> NoFile]

\* Whether a call binds _headers to a new list: new_sheet_with_defaults and a
\* successful load_from_csv assign it, and so does insert_column when there are
\* no headers.  Every other method changes the list in place.
RebindsHeaders(name, res) ==
    \/ name = "new_sheet_with_defaults"
    \/ name = "load_from_csv" /\ res.ret = "none"
    \/ name = "insert_column" /\ res.ret = "true" /\ headers = << >>

\* Whether a call binds _data to a new list.
RebindsRows(name, res) ==
    \/ name = "new_sheet_with_defaults"
    \/ name = "load_from_csv" /\ res.ret = "none"

\* A call of a method that leaves `res`, recorded with its arguments.  The
\* caller makes one call at a time and looks at its outcome before the next.
\* A list the document shares with the caller changes for the caller too.
Call(name, a, result) ==
    /\ op = "idle"
    /\ \E res \in {result} :
          /\ Fits(res.h, res.r)
          /\ headers' = res.h
          /\ rows' = res.r
          /\ ret' = res.ret
          /\ val' = res.val
          /\ op' = name
          /\ args' = a
          /\ pre' = [h |-> headers, r |-> rows]
          /\ shared' = [h |-> shared.h /\ ~RebindsHeaders(name, res),
                        r |-> shared.r /\ ~RebindsRows(name, res)]
          /\ given' = [h |-> IF shared'.h THEN res.h ELSE given.h,
                       r |-> IF shared'.r THEN res.r ELSE given.r]
          /\ UNCHANGED gui

SetCell ==
    \E row \in RowIdx, col \in ColIdx, value \in Values :
        /\ Call("set_cell",
                [NoArgs EXCEPT !.row = row, !.col = col, !.value = value],
                set_cell(headers, rows, row, col, value))
        /\ UNCHANGED <<fs, saved>>

GetCell ==
    \E row \in RowIdx, col \in ColIdx :
        /\ Call("get_cell", [NoArgs EXCEPT !.row = row, !.col = col],
                OutValue(headers, rows, get_cell(headers, rows, row, col)))
        /\ UNCHANGED <<fs, saved>>

GetHeader ==
    \E col \in HeaderIdx :
        /\ Call("get_header", [NoArgs EXCEPT !.col = col],
                get_header(headers, rows, col))
        /\ UNCHANGED <<fs, saved>>

ClearCell ==
    \E row \in RowIdx, col \in ColIdx :
        /\ Call("clear_cell", [NoArgs EXCEPT !.row = row, !.col = col],
                clear_cell(headers, rows, row, col))
        /\ UNCHANGED <<fs, saved>>

SetHeader ==
    \E col \in ColIdx, value \in Values :
        /\ Call("set_header", [NoArgs EXCEPT !.col = col, !.value = value],
                set_header(headers, rows, col, value))
        /\ UNCHANGED <<fs, saved>>

InsertRow ==
    \E row \in RowIdx, count \in Counts :
        /\ Call("insert_row", [NoArgs EXCEPT !.row = row, !.count = count],
                insert_row(headers, rows, row, count))
        /\ UNCHANGED <<fs, saved>>

RemoveRow ==
    \E row \in RowIdx, count \in Counts :
        /\ Call("remove_row", [NoArgs EXCEPT !.row = row, !.count = count],
                remove_row(headers, rows, row, count))
        /\ UNCHANGED <<fs, saved>>

InsertColumn ==
    \E col \in ColIdx, count \in Counts :
        /\ Call("insert_column", [NoArgs EXCEPT !.col = col, !.count = count],
                insert_column(headers, rows, col, count))
        /\ UNCHANGED <<fs, saved>>

RemoveColumn ==
    \E col \in ColIdx, count \in Counts :
        /\ Call("remove_column", [NoArgs EXCEPT !.col = col, !.count = count],
                remove_column(headers, rows, col, count))
        /\ UNCHANGED <<fs, saved>>

NewSheet ==
    \E hs \in HeaderSets :
        /\ Call("new_sheet_with_defaults", [NoArgs EXCEPT !.list = hs],
                new_sheet_with_defaults(headers, rows, hs))
        /\ UNCHANGED <<fs, saved>>

Load ==
    \E path \in DOMAIN fs :
        /\ Call("load_from_csv", [NoArgs EXCEPT !.path = path],
                load_from_csv(headers, rows, fs[path]))
        /\ UNCHANGED <<fs, saved>>

\* The caller has taken the outcome of the last call.
Return ==
    /\ op # "idle"
    /\ op' = "idle"
    /\ args' = NoArgs
    /\ ret' = "none"
    /\ val' = << >>
    /\ pre' = [h |-> << >>, r |-> << >>]
    /\ UNCHANGED <<headers, rows, fs, saved, given, shared, gui>>

Init ==
    /\ headers = << >>
    /\ rows = << >>
    /\ fs = SampleFiles
    /\ saved = NoDoc
    /\ op = "idle"
    /\ args = NoArgs
    /\ ret = "none"
    /\ val = << >>
    /\ pre = [h |-> << >>, r |-> << >>]
    /\ given = NoLists
    /\ shared = NotShared
    /\ gui = NoGui

Next ==
    \/ GetCell
    \/ GetHeader
    \/ SetCell
    \/ ClearCell
    \/ SetHeader
    \/ InsertRow
    \/ RemoveRow
    \/ InsertColumn
    \/ RemoveColumn
    \/ NewSheet
    \/ Load
    \/ Return

Spec == Init /\ [][Next]_vars

\* The structural operations alone, on documents that are empty, reset by
\* new_sheet_with_defaults or loaded by load_from_csv.
NextStructural ==
    \/ InsertRow
    \/ RemoveRow
    \/ InsertColumn
    \/ RemoveColumn
    \/ NewSheet
    \/ Load
    \/ Return

SpecStructural == Init /\ [][NextStructural]_vars

---------------------------------------------------------------------------
(* Saving and loading: an editor constructed with any data and headers      *)
(* (CsvEditor(data, headers)) saves to the file "out" and loads it again.   *)

\* A value holding a comma, a double quote and a newline.
SPECIAL == <<COMMA, QUOTE, LF>>
\* A value that starts with the character U+FEFF.
BOM_A == <<BOM, "a">>
\* The cells and the headers of the documents saved.
CsvValues == {EMPTY, <<"a">>}
CsvHeaderValues == CsvValues \cup {SPECIAL, BOM_A}

\* The sequences over S of length at most n.
SeqsUpTo(S, n) == UNION {[1 .. k -> S] : k \in 0 .. n}

CsvHeaders == SeqsUpTo(CsvHeaderValues, MaxCols)
CsvRows == SeqsUpTo(SeqsUpTo(CsvValues, MaxCols), MaxRows)

\* The column orders given to save_to_csv.
Orders == {NoOrder, Order(<< >>), Order(<<0>>), Order(<<1, 0>>)}

\* The calls of save_to_csv: to the file "out" with each column order, and to
\* a path that cannot be written.
SaveCalls ==
    {[path |-> "out", order |-> o] : o \in Orders}
        \cup {[path |-> "locked", order |-> NoOrder]}

Save ==
    \E call \in SaveCalls :
        \E res \in {save_to_csv(headers, rows, call.path, call.order)} :
            /\ Call("save_to_csv",
                    [NoArgs EXCEPT !.path = call.path, !.order = call.order],
                    Out(res.h, res.r, res.ret))
            /\ fs' = IF res.written
                     THEN [fs EXCEPT ![call.path] = File(res.text)]
                     ELSE fs
            /\ saved' = IF res.written
                        THEN [valid |-> TRUE, h |-> headers, r |-> rows,
                              order |-> call.order]
                        ELSE saved

InitCsv ==
    /\ headers \in CsvHeaders
    /\ rows \in CsvRows
    /\ Fits(headers, rows)
    /\ fs = [path \in {"out"} |-> NoFile]
    /\ saved = NoDoc
    /\ op = "idle"
    /\ args = NoArgs
    /\ ret = "none"
    /\ val = << >>
    /\ pre = [h |-> << >>, r |-> << >>]
    /\ given = NoLists
    /\ shared = NotShared
    /\ gui = NoGui

NextCsv ==
    \/ Save
    \/ Load
    \/ Return

SpecCsv == InitCsv /\ [][NextCsv]_vars

---------------------------------------------------------------------------
(* Quoting: the documents saved and loaded have cells and headers that hold *)
(* a comma, a double quote and a newline.                                   *)

QuoteValues == {<<"a">>, SPECIAL}

InitQuote ==
    /\ headers \in SeqsUpTo(QuoteValues, MaxCols)
    /\ rows \in SeqsUpTo(SeqsUpTo(QuoteValues, MaxCols), MaxRows)
    /\ Fits(headers, rows)
    /\ fs = [path \in {"out"} |-> NoFile]
    /\ saved = NoDoc
    /\ op = "idle"
    /\ args = NoArgs
    /\ ret = "none"
    /\ val = << >>
    /\ pre = [h |-> << >>, r |-> << >>]
    /\ given = NoLists
    /\ shared = NotShared
    /\ gui = NoGui

NextQuote ==
    \/ Save
    \/ Load
    \/ Return

SpecQuote == InitQuote /\ [][NextQuote]_vars

---------------------------------------------------------------------------
(* Loading: an editor holding some document loads a file of any short text, *)
(* or a file that does not exist.                                           *)

\* The longest text of a file loaded.
MaxText == 4

\* The characters of the files loaded.
LoadChars == {"a", COMMA, QUOTE, CR, LF, BOM, INVALID}

LoadTexts == SeqsUpTo(LoadChars, MaxText)

\* The documents the editor holds before it loads: empty, headers only, and
\* ragged.
LoadDocs ==
    {[h |-> << >>, r |-> << >>], [h |-> <<X>>, r |-> << >>],
     [h |-> <<X>>, r |-> << <<X, X>> >>]}

InitLoad ==
    /\ \E d \in LoadDocs : headers = d.h /\ rows = d.r
    /\ \E text \in LoadTexts : fs \in {[path \in {"in"} |-> File(text)],
                                       [path \in {"in"} |-> NoFile]}
    /\ saved = NoDoc
    /\ op = "idle"
    /\ args = NoArgs
    /\ ret = "none"
    /\ val = << >>
    /\ pre = [h |-> << >>, r |-> << >>]
    /\ given = NoLists
    /\ shared = NotShared
    /\ gui = NoGui

NextLoad ==
    \/ Load
    \/ Return

SpecLoad == InitLoad /\ [][NextLoad]_vars

---------------------------------------------------------------------------
(* Ownership: the caller builds a header list and a data list, constructs   *)
(* the editor from them (CsvEditor(data, headers)), keeps both lists, and   *)
(* goes on using the editor and the lists.                                  *)

\* The lists the caller constructs the editor from.
OwnLists ==
    {[h |-> << >>, r |-> << >>], [h |-> << >>, r |-> << <<X>> >>],
     [h |-> <<X>>, r |-> << <<EMPTY>> >>]}

\* __init__ stores the lists it is given.
InitOwn ==
    /\ given \in OwnLists
    /\ headers = given.h
    /\ rows = given.r
    /\ shared = [h |-> TRUE, r |-> TRUE]
    /\ gui = NoGui
    /\ fs = SampleFiles
    /\ saved = NoDoc
    /\ op = "idle"
    /\ args = NoArgs
    /\ ret = "none"
    /\ val = << >>
    /\ pre = [h |-> << >>, r |-> << >>]

\* new_sheet_with_defaults(hs), hs being the header list the caller holds.
NewSheetFromList ==
    /\ Call("new_sheet_with_defaults", [NoArgs EXCEPT !.list = given.h],
            new_sheet_with_defaults(headers, rows, given.h))
    /\ UNCHANGED <<fs, saved>>

\* The lists after the caller's hs.append("x"), data.append([]) or
\* data[0].append("x").
Mutations(l) ==
    {[l EXCEPT !.h = Append(@, X)], [l EXCEPT !.r = Append(@, << >>)]}
        \cup (IF l.r = << >> THEN {} ELSE {[l EXCEPT !.r[1] = Append(@, X)]})

\* The caller changes one of the lists it holds; a list the document shares
\* changes in the document as well.
CallerMutates ==
    /\ op = "idle"
    /\ \E l \in Mutations(given) :
          /\ Fits(l.h, l.r)
          /\ given' = l
          /\ headers' = IF shared.h THEN l.h ELSE headers
          /\ rows' = IF shared.r THEN l.r ELSE rows
    /\ UNCHANGED <<fs, saved, op, args, ret, val, pre, shared, gui>>

\* The most list elements (header slots, rows and cells together) the
\* document, and the lists the caller holds, have while ownership is followed.
MaxOwn == 3

\* The step leaves the document and the caller's lists within MaxOwn.
SmallNext ==
    /\ Len(headers') + Len(rows') + CellCount(rows') <= MaxOwn
    /\ Len(given'.h) + Len(given'.r) + CellCount(given'.r) <= MaxOwn

NextOwn ==
    \/ SetCell /\ SmallNext
    \/ SetHeader /\ SmallNext
    \/ InsertRow /\ SmallNext
    \/ RemoveRow /\ SmallNext
    \/ InsertColumn /\ SmallNext
    \/ RemoveColumn /\ SmallNext
    \/ NewSheetFromList /\ SmallNext
    \/ Load /\ SmallNext
    \/ CallerMutates /\ SmallNext
    \/ Return

SpecOwn == InitOwn /\ [][NextOwn]_vars

---------------------------------------------------------------------------
(* Viewing: an editor constructed with any data and headers renders them.   *)

\* The largest max_col_width given to view_data.
MaxWidth == 5

\* A value longer than three dots.
LONG == <<"a", "b", "c", "d", "e">>
\* The cells and the headers of the documents viewed.
ViewValues == {X, LONG}

ViewHeaders == SeqsUpTo(ViewValues, MaxCols)
ViewRows == SeqsUpTo(SeqsUpTo(ViewValues, MaxCols), MaxRows)

\* The max_rows given to view_data: negative, zero, and up to every row.
ViewRowLimits == -1 .. MaxRows
ViewWidths == 1 .. MaxWidth

ViewData ==
    \E max_rows \in ViewRowLimits, max_col_width \in ViewWidths :
        /\ Call("view_data",
                [NoArgs EXCEPT !.max_rows = max_rows,
                               !.max_col_width = max_col_width],
                view_data(headers, rows, max_rows, max_col_width))
        /\ UNCHANGED <<fs, saved>>

InitView ==
    /\ headers \in ViewHeaders
    /\ rows \in ViewRows
    /\ Fits(headers, rows)
    /\ fs = SampleFiles
    /\ saved = NoDoc
    /\ op = "idle"
    /\ args = NoArgs
    /\ ret = "none"
    /\ val = << >>
    /\ pre = [h |-> << >>, r |-> << >>]
    /\ given = NoLists
    /\ shared = NotShared
    /\ gui = NoGui

NextView ==
    \/ ViewData
    \/ Return

SpecView == InitView /\ [][NextView]_vars

---------------------------------------------------------------------------
(* The Qt table model as a state machine: the window's edit actions call    *)
(* these methods of a CsvTableModel that starts empty.                      *)

SetData ==
    \E row \in RowIdx, col \in ColIdx, value \in Values :
        /\ Call("setData",
                [NoArgs EXCEPT !.row = row, !.col = col, !.value = value],
                setData(headers, rows, index(headers, rows, row, col), value))
        /\ UNCHANGED <<fs, saved>>

SetHeaderData ==
    \E section \in ColIdx, value \in Values :
        /\ Call("setHeaderData",
                [NoArgs EXCEPT !.col = section, !.value = value],
                setHeaderData(headers, rows, section, value))
        /\ UNCHANGED <<fs, saved>>

InsertRows ==
    \E row \in RowIdx, count \in Counts :
        /\ Call("insertRows", [NoArgs EXCEPT !.row = row, !.count = count],
                insertRows(headers, rows, row, count))
        /\ UNCHANGED <<fs, saved>>

RemoveRows ==
    \E row \in RowIdx, count \in Counts :
        /\ Call("removeRows", [NoArgs EXCEPT !.row = row, !.count = count],
                removeRows(headers, rows, row, count))
        /\ UNCHANGED <<fs, saved>>

InsertColumns ==
    \E column \in ColIdx, count \in Counts :
        /\ Call("insertColumns",
                [NoArgs EXCEPT !.col = column, !.count = count],
                insertColumns(headers, rows, column, count))
        /\ UNCHANGED <<fs, saved>>

RemoveColumns ==
    \E column \in ColIdx, count \in Counts :
        /\ Call("removeColumns",
                [NoArgs EXCEPT !.col = column, !.count = count],
                removeColumns(headers, rows, column, count))
        /\ UNCHANGED <<fs, saved>>

NextTable ==
    \/ SetData
    \/ SetHeaderData
    \/ InsertRows
    \/ RemoveRows
    \/ InsertColumns
    \/ RemoveColumns
    \/ Return

SpecTable == Init /\ [][NextTable]_vars

---------------------------------------------------------------------------
(* The command line: CsvCLI's commands on its editor, which starts empty.   *)

CliInsertColumn ==
    \E col \in ColIdx, header \in Values :
        /\ Call("CsvCLI.insert_column",
                [NoArgs EXCEPT !.col = col, !.value = header],
                CsvCLI_insert_column(headers, rows, col, header))
        /\ UNCHANGED <<fs, saved>>

NextCli ==
    \/ CliInsertColumn
    \/ SetCell
    \/ SetHeader
    \/ InsertRow
    \/ RemoveRow
    \/ RemoveColumn
    \/ NewSheet
    \/ Load
    \/ Return

SpecCli == Init /\ [][NextCli]_vars

---------------------------------------------------------------------------
(* The Qt window (src/main.py): a CsvTableModel, the dirty flag, the        *)
(* current path and the flash timers its insertions start.                  *)

\* The window's default columns.  None of the names holds a character that
\* the CSV dialect treats specially, so each name is written as one symbol.
DEFAULT_HEADERS ==
    << <<"Type Parent Requirement">>, <<"ID">>, <<"Name">>, <<"Text">>,
       <<"Traced To">>, <<"Verified By">>, <<"Class">>, <<"Story">> >>

\* The most flash timers pending at once.
MaxTimers == 2
\* The most edits the user makes while the window is open.
MaxEdits == 1

\* The files the dialogs can name.  "" stands for a dialog that was cancelled.
GuiFiles ==
    [path \in {"wide", "garbled", "out", "locked"} |->
        CASE path = "wide" -> File(<<"x", CR, LF, COMMA, "x", CR, LF>>)
          [] path = "garbled" -> File(<<"x", COMMA, INVALID, LF>>)
          [] OTHER -> NoFile]
OpenChoices(files) == {""} \cup {p \in DOMAIN files : files[p].exists}
SaveChoices == {"", "out", "locked"}
\* The answers to the unsaved-changes prompt, which is shown when the flag is
\* set, and the paths the save dialog gives, which is shown when a save
\* needs a path.
Answers(g) == IF g.dirty THEN {"yes", "no", "cancel"} ELSE {"none"}
SaveDialog(needed) == IF needed THEN SaveChoices ELSE {""}

\* The part of the window a file operation works on.
Window(h, r, files, g) ==
    [h |-> h, r |-> r, fs |-> files, dirty |-> g.dirty, path |-> g.path,
     timers |-> g.timers, edits |-> g.edits]

\* TableView.visual_column_order(): the header's sections, left to right.
visual_column_order(h, r) == Order([k \in 1 .. columnCount(h, r) |-> k - 1])

\* The try block of save_file, for a window that has a path.
SaveToPath(w) ==
    LET res == save_to_csv(w.h, w.r, w.path, visual_column_order(w.h, w.r))
    IN  IF res.ret = "none"
        THEN [w |-> [w EXCEPT !.fs = [w.fs EXCEPT ![w.path] = File(res.text)],
                              !.dirty = FALSE],
              ok |-> TRUE, save |-> "ok"]
        ELSE [w |-> w, ok |-> FALSE, save |-> "failed"]

\* save_file_as: dlg is the path the save dialog gave.
save_file_as(w, dlg) ==
    IF dlg = "" THEN [w |-> w, ok |-> FALSE, save |-> "cancelled"]
    ELSE SaveToPath([w EXCEPT !.path = dlg])

save_file(w, dlg) ==
    IF w.path = "" THEN save_file_as(w, dlg) ELSE SaveToPath(w)

\* _prompt_unsaved: whether to go on, after the answer and the save it asks for.
_prompt_unsaved(w, answer, dlg) ==
    IF ~w.dirty
    THEN [w |-> w, ok |-> TRUE, save |-> "none", prompt |-> "none"]
    ELSE IF answer = "cancel"
    THEN [w |-> w, ok |-> FALSE, save |-> "none", prompt |-> "cancel"]
    ELSE IF answer = "yes"
    THEN LET s == save_file(w, dlg)
         IN  [w |-> s.w, ok |-> s.ok, save |-> s.save, prompt |-> "yes"]
    ELSE [w |-> w, ok |-> TRUE, save |-> "none", prompt |-> "no"]

\* _flash_new_items(coords): a timer is started when there are coordinates.
Flash(timers, cells) == IF cells > 0 THEN timers + 1 ELSE timers

\* _new_sheet_with_defaults: the default columns and one empty row, whose
\* insertion marks the window dirty before the flag is reset.
_new_sheet_with_defaults(w) ==
    LET res == insertRows(DEFAULT_HEADERS, << >>, 0, 1)
    IN  [w EXCEPT !.h = res.h, !.r = res.r, !.path = "", !.dirty = FALSE,
                  !.timers = Flash(w.timers, columnCount(DEFAULT_HEADERS, << >>))]

\* Whether a document of the window is within the bounds of the model.
GuiFits(h, r) ==
    /\ Len(r) <= MaxRows
    /\ Len(h) <= Len(DEFAULT_HEADERS) + 1
    /\ \A k \in 1 .. Len(r) : Len(r[k]) <= Len(DEFAULT_HEADERS) + 1

\* The rows and the columns the user points at: cells of the table.
GuiRows == {row \in {0} : row < rowCount(headers, rows)}
GuiCols == {col \in {0} : col < columnCount(headers, rows)}
\* view.currentIndex(): a cell of the table, or the invalid index (-1, -1).
CurrentIndexes ==
    {index(headers, rows, row, col) : row \in GuiRows, col \in GuiCols}
        \cup {index(headers, rows, -1, -1)}

\* The window after a handler: w is what the handler left, and the rest is
\* what it went through.
After(w, edited, prompt, save, discarded) ==
    [front |-> gui.front, open |-> TRUE, dirty |-> w.dirty, path |-> w.path,
     timers |-> w.timers, edits |-> w.edits, edited |-> edited, prompt |-> prompt, save |-> save,
     discarded |-> discarded,
     was |-> [dirty |-> gui.dirty, path |-> gui.path]]

\* One handler of the event loop has run to its end, leaving the window win.
Handler(front, name, a, win, open, edited, prompt, save, discarded) ==
    /\ gui.front = front
    /\ gui.open
    /\ \E w \in {win} :
          /\ GuiFits(w.h, w.r)
          /\ w.timers <= MaxTimers
          /\ w.edits <= MaxEdits
          /\ headers' = w.h
          /\ rows' = w.r
          /\ fs' = w.fs
          /\ gui' = [After(w, edited, prompt, save, discarded)
                        EXCEPT !.open = open]
    /\ op' = name
    /\ args' = a
    /\ ret' = "none"
    /\ val' = << >>
    /\ pre' = [h |-> headers, r |-> rows]
    /\ UNCHANGED <<saved, given, shared>>

\* File > New
QtNewFile ==
    \E answer \in Answers(gui) :
      \E dlg \in SaveDialog(answer = "yes" /\ gui.path = "") :
        \E p \in {_prompt_unsaved(Window(headers, rows, fs, gui), answer, dlg)} :
            Handler("qt", "new_file", NoArgs,
                    IF p.ok THEN _new_sheet_with_defaults(p.w) ELSE p.w,
                    TRUE,
                    IF p.ok \/ p.save = "ok" THEN FALSE ELSE gui.edited,
                    p.prompt, p.save, p.ok /\ p.w.dirty)

\* File > Open
QtOpenFile ==
    \E answer \in Answers(gui) :
      \E dlg \in SaveDialog(answer = "yes" /\ gui.path = "") :
        \E p \in {_prompt_unsaved(Window(headers, rows, fs, gui), answer, dlg)} :
          \E path \in IF p.ok THEN OpenChoices(p.w.fs) ELSE {""} :
            \E res \in {IF path = "" THEN Out(p.w.h, p.w.r, "cancelled")
                         ELSE load_from_csv(p.w.h, p.w.r, p.w.fs[path])} :
              LET loaded == p.ok /\ path # "" /\ res.ret = "none"
              IN  Handler("qt", "open_file", [NoArgs EXCEPT !.path = path],
                          IF loaded
                          THEN [p.w EXCEPT !.h = res.h, !.r = res.r,
                                           !.path = path, !.dirty = FALSE]
                          ELSE p.w,
                          TRUE,
                          IF loaded \/ p.save = "ok" THEN FALSE ELSE gui.edited,
                          p.prompt, p.save, loaded /\ p.w.dirty)

\* File > Save
QtSaveFile ==
    \E dlg \in SaveDialog(gui.path = "") :
        \E s \in {save_file(Window(headers, rows, fs, gui), dlg)} :
            Handler("qt", "save_file", [NoArgs EXCEPT !.path = dlg], s.w, TRUE,
                    IF s.ok THEN FALSE ELSE gui.edited, "none", s.save, FALSE)

\* File > Save As...
QtSaveFileAs ==
    \E dlg \in SaveChoices :
        \E s \in {save_file_as(Window(headers, rows, fs, gui), dlg)} :
            Handler("qt", "save_file_as", [NoArgs EXCEPT !.path = dlg], s.w,
                    TRUE, IF s.ok THEN FALSE ELSE gui.edited, "none", s.save,
                    FALSE)

\* An edit action of the window: the table model's method has run, a signal
\* connected to _mark_dirty was emitted or not, and the insertion flashed the
\* given number of cells.
QtEdit(name, a, res, signalled, cells) ==
    Handler("qt", name, a,
            [Window(headers, rows, fs, gui) EXCEPT
                !.h = res.h, !.r = res.r,
                !.dirty = gui.dirty \/ signalled,
                !.timers = Flash(gui.timers, cells),
                !.edits = gui.edits + 1],
            TRUE, TRUE, "none", "none", FALSE)

InsertRowAbove ==
    \E row \in GuiRows :
        QtEdit("insert_row_above", [NoArgs EXCEPT !.row = row],
               insertRows(headers, rows, row, 1), TRUE,
               columnCount(headers, rows))

InsertRowBelowAt ==
    \E row \in GuiRows :
        QtEdit("insert_row_below_at", [NoArgs EXCEPT !.row = row],
               insertRows(headers, rows, row + 1, 1), TRUE,
               columnCount(headers, rows))

\* The toolbar's "Insert Row Below", from the current index.
InsertRowBelow ==
    \E idx \in CurrentIndexes :
        LET row == IF idx.valid THEN idx.row ELSE rowCount(headers, rows) - 1
        IN  QtEdit("insert_row_below", [NoArgs EXCEPT !.row = row],
                   insertRows(headers, rows, Max2(row, 0) + 1, 1), TRUE,
                   columnCount(headers, rows))

DeleteRow ==
    \E row \in GuiRows :
        QtEdit("delete_row", [NoArgs EXCEPT !.row = row],
               removeRows(headers, rows, row, 1), TRUE, 0)

InsertColLeft ==
    \E col \in GuiCols :
        QtEdit("insert_col_left", [NoArgs EXCEPT !.col = col],
               insertColumns(headers, rows, col, 1), TRUE,
               rowCount(headers, rows))

InsertColRightAt ==
    \E col \in GuiCols :
        QtEdit("insert_col_right_at", [NoArgs EXCEPT !.col = col],
               insertColumns(headers, rows, col + 1, 1), TRUE,
               rowCount(headers, rows))

\* The menu's "Insert Column Right", from the current index.
InsertColRight ==
    \E idx \in CurrentIndexes :
        LET col == IF idx.valid THEN idx.col
                   ELSE columnCount(headers, rows) - 1
        IN  QtEdit("insert_col_right", [NoArgs EXCEPT !.col = col],
                   insertColumns(headers, rows, col + 1, 1), TRUE,
                   rowCount(headers, rows))

DeleteCol ==
    \E col \in GuiCols :
        QtEdit("delete_col", [NoArgs EXCEPT !.col = col],
               removeColumns(headers, rows, col, 1), TRUE, 0)

QtClearCell ==
    \E row \in GuiRows, col \in GuiCols :
        LET res == setData(headers, rows, index(headers, rows, row, col), EMPTY)
        IN  QtEdit("clear_cell", [NoArgs EXCEPT !.row = row, !.col = col],
                   res, res.ret = "true", 0)

\* The delegate commits the text of a cell's editor.
SetModelData ==
    \E row \in GuiRows, col \in GuiCols, value \in Values :
        LET res == setData(headers, rows, index(headers, rows, row, col), value)
        IN  QtEdit("setModelData",
                   [NoArgs EXCEPT !.row = row, !.col = col, !.value = value],
                   res, res.ret = "true", 0)

\* A double click on a header section; the dialog is accepted with a new text.
RenameHeader ==
    \E section \in GuiCols, new \in Values :
        QtEdit("rename_header", [NoArgs EXCEPT !.col = section, !.value = new],
               setHeaderData(headers, rows, section, new), TRUE, 0)

\* A flash timer runs out: clear_flash emits dataChanged for its cells.
ClearFlash ==
    /\ gui.timers > 0
    /\ Handler("qt", "clear_flash", NoArgs,
               [Window(headers, rows, fs, gui) EXCEPT
                   !.dirty = TRUE, !.timers = gui.timers - 1],
               TRUE, gui.edited, "none", "none", FALSE)

\* The window is closed: MainWindow has no closeEvent, so it just closes.
QtClose ==
    /\ gui.open
    /\ Handler("qt", "close", NoArgs, Window(headers, rows, fs, gui),
               FALSE, gui.edited, "none", "none", gui.dirty)

\* MainWindow(): the model holds the default columns, the signals are
\* connected, and the window starts with a new sheet.
InitQt ==
    LET w == _new_sheet_with_defaults(
                 [h |-> DEFAULT_HEADERS, r |-> << >>, fs |-> GuiFiles,
                  dirty |-> FALSE, path |-> "", timers |-> 0, edits |-> 0])
    IN  /\ headers = w.h
        /\ rows = w.r
        /\ fs = w.fs
        /\ gui = [NoGui EXCEPT !.front = "qt", !.open = TRUE,
                               !.dirty = w.dirty, !.path = w.path,
                               !.timers = w.timers]
        /\ saved = NoDoc
        /\ op = "idle"
        /\ args = NoArgs
        /\ ret = "none"
        /\ val = << >>
        /\ pre = [h |-> << >>, r |-> << >>]
        /\ given = NoLists
        /\ shared = NotShared

NextQt ==
    \/ QtNewFile
    \/ QtOpenFile
    \/ QtSaveFile
    \/ QtSaveFileAs
    \/ InsertRowAbove
    \/ InsertRowBelowAt
    \/ InsertRowBelow
    \/ DeleteRow
    \/ InsertColLeft
    \/ InsertColRightAt
    \/ InsertColRight
    \/ DeleteCol
    \/ QtClearCell
    \/ SetModelData
    \/ RenameHeader
    \/ ClearFlash
    \/ QtClose

---------------------------------------------------------------------------
(* The Tk window (src/gui.py): a CsvEditor, is_modified and current_file.   *)

\* _save_as_file: dlg is the file name the save dialog gave.
_save_as_file(w, dlg) ==
    IF dlg = "" THEN [w |-> w, save |-> "cancelled"]
    ELSE LET res == save_to_csv(w.h, w.r, dlg, NoOrder)
         IN  IF res.ret = "none"
             THEN [w |-> [w EXCEPT !.fs = [w.fs EXCEPT ![dlg] = File(res.text)],
                                   !.path = dlg, !.dirty = FALSE],
                   save |-> "ok"]
             ELSE [w |-> w, save |-> "failed"]

_save_file(w, dlg) ==
    IF w.path # ""
    THEN LET res == save_to_csv(w.h, w.r, w.path, NoOrder)
         IN  IF res.ret = "none"
             THEN [w |-> [w EXCEPT
                             !.fs = [w.fs EXCEPT ![w.path] = File(res.text)],
                             !.dirty = FALSE],
                   save |-> "ok"]
             ELSE [w |-> w, save |-> "failed"]
    ELSE _save_as_file(w, dlg)

\* _check_unsaved_changes: cancel tells the caller to give up its action.
_check_unsaved_changes(w, answer, dlg) ==
    IF w.dirty
    THEN IF answer = "yes"
         THEN LET s == _save_file(w, dlg)
              IN  [w |-> s.w, cancel |-> s.w.dirty, save |-> s.save,
                   prompt |-> "yes"]
         ELSE IF answer = "cancel"
         THEN [w |-> w, cancel |-> TRUE, save |-> "none", prompt |-> "cancel"]
         ELSE [w |-> w, cancel |-> FALSE, save |-> "none", prompt |-> "no"]
    ELSE [w |-> w, cancel |-> FALSE, save |-> "none", prompt |-> "none"]

\* File > New
TkNewFile ==
    \E answer \in Answers(gui) :
      \E dlg \in SaveDialog(answer = "yes" /\ gui.path = "") :
        \E c \in {_check_unsaved_changes(Window(headers, rows, fs, gui),
                                          answer, dlg)} :
          \E res \in {new_sheet_with_defaults(c.w.h, c.w.r, DEFAULT_HEADERS)} :
            Handler("tk", "_new_file", NoArgs,
                    IF c.cancel THEN c.w
                    ELSE [c.w EXCEPT !.h = res.h, !.r = res.r, !.path = "",
                                     !.dirty = FALSE],
                    TRUE,
                    IF ~c.cancel \/ c.save = "ok" THEN FALSE ELSE gui.edited,
                    c.prompt, c.save, ~c.cancel /\ c.w.dirty)

\* File > Open
TkOpenFile ==
    \E answer \in Answers(gui) :
      \E dlg \in SaveDialog(answer = "yes" /\ gui.path = "") :
        \E c \in {_check_unsaved_changes(Window(headers, rows, fs, gui),
                                          answer, dlg)} :
          \E filename \in IF c.cancel THEN {""} ELSE OpenChoices(c.w.fs) :
            \E res \in {IF filename = "" THEN Out(c.w.h, c.w.r, "cancelled")
                         ELSE load_from_csv(c.w.h, c.w.r, c.w.fs[filename])} :
              LET loaded == ~c.cancel /\ filename # "" /\ res.ret = "none"
              IN  Handler("tk", "_open_file",
                          [NoArgs EXCEPT !.path = filename],
                          IF loaded
                          THEN [c.w EXCEPT !.h = res.h, !.r = res.r,
                                           !.path = filename, !.dirty = FALSE]
                          ELSE c.w,
                          TRUE,
                          IF loaded \/ c.save = "ok" THEN FALSE ELSE gui.edited,
                          c.prompt, c.save, loaded /\ c.w.dirty)

\* File > Save
TkSaveFile ==
    \E dlg \in SaveDialog(gui.path = "") :
        \E s \in {_save_file(Window(headers, rows, fs, gui), dlg)} :
            Handler("tk", "_save_file", [NoArgs EXCEPT !.path = dlg], s.w, TRUE,
                    IF s.save = "ok" THEN FALSE ELSE gui.edited,
                    "none", s.save, FALSE)

\* File > Save As...
TkSaveAsFile ==
    \E dlg \in SaveChoices :
        \E s \in {_save_as_file(Window(headers, rows, fs, gui), dlg)} :
            Handler("tk", "_save_as_file", [NoArgs EXCEPT !.path = dlg], s.w,
                    TRUE, IF s.save = "ok" THEN FALSE ELSE gui.edited,
                    "none", s.save, FALSE)

\* _on_closing: the window is destroyed unless the check says to give up.
TkClose ==
    \E answer \in Answers(gui) :
      \E dlg \in SaveDialog(answer = "yes" /\ gui.path = "") :
        \E c \in {_check_unsaved_changes(Window(headers, rows, fs, gui),
                                          answer, dlg)} :
            Handler("tk", "_on_closing", NoArgs, c.w, c.cancel,
                    IF c.save = "ok" THEN FALSE ELSE gui.edited,
                    c.prompt, c.save, ~c.cancel /\ c.w.dirty)

\* _get_selected_row_col(): the selected row with the column last clicked
\* (column 0 until a click), or nothing selected.
Selections ==
    {[some |-> TRUE, row |-> row, col |-> 0] : row \in GuiRows}
        \cup {[some |-> FALSE, row |-> -1, col |-> -1]}

\* An edit action of the Tk window: the editor's method has run, and the
\* handler marked the document modified or not.
TkEdit(name, a, res, marks) ==
    Handler("tk", name, a,
            [Window(headers, rows, fs, gui) EXCEPT
                !.h = res.h, !.r = res.r,
                !.dirty = gui.dirty \/ marks,
                !.edits = gui.edits + 1],
            TRUE, TRUE, "none", "none", FALSE)

TkInsertRowAbove ==
    \E sel \in Selections :
        \E res \in {insert_row(headers, rows,
                                IF sel.some THEN sel.row ELSE 0, 1)} :
            TkEdit("_insert_row_above", [NoArgs EXCEPT !.row = sel.row],
                   res, res.ret = "true")

TkInsertRowBelow ==
    \E sel \in Selections :
        \E res \in {insert_row(headers, rows,
                                IF sel.some THEN sel.row + 1
                                ELSE row_count(headers, rows), 1)} :
            TkEdit("_insert_row_below", [NoArgs EXCEPT !.row = sel.row],
                   res, res.ret = "true")

\* The row is deleted when the user confirms.
TkDeleteRow ==
    \E sel \in Selections :
        /\ sel.some
        /\ \E res \in {remove_row(headers, rows, sel.row, 1)} :
              TkEdit("_delete_row", [NoArgs EXCEPT !.row = sel.row],
                     res, res.ret = "true")

TkInsertColumnLeft ==
    \E sel \in Selections :
        \E res \in {insert_column(headers, rows,
                                   IF sel.some THEN sel.col ELSE 0, 1)} :
            TkEdit("_insert_column_left", [NoArgs EXCEPT !.col = sel.col],
                   res, res.ret = "true")

TkInsertColumnRight ==
    \E sel \in Selections :
        \E res \in {insert_column(headers, rows,
                                   IF sel.some THEN sel.col + 1
                                   ELSE column_count(headers, rows), 1)} :
            TkEdit("_insert_column_right", [NoArgs EXCEPT !.col = sel.col],
                   res, res.ret = "true")

\* The column is deleted when the user confirms.
TkDeleteColumn ==
    \E sel \in Selections :
        /\ sel.some
        /\ \E res \in {remove_column(headers, rows, sel.col, 1)} :
              TkEdit("_delete_column", [NoArgs EXCEPT !.col = sel.col],
                     res, res.ret = "true")

TkClearCell ==
    \E sel \in Selections :
        /\ sel.some
        /\ \E res \in {clear_cell(headers, rows, sel.row, sel.col)} :
              TkEdit("_clear_cell",
                     [NoArgs EXCEPT !.row = sel.row, !.col = sel.col],
                     res, res.ret = "true")

\* A double click on a heading; the dialog is accepted with a new text.
TkEditHeader ==
    \E col \in GuiCols, new_header \in Values :
        \E res \in {set_header(headers, rows, col, new_header)} :
            TkEdit("_edit_header",
                   [NoArgs EXCEPT !.col = col, !.value = new_header],
                   res, TRUE)

\* The entry over a cell is committed.
TkFinishEdit ==
    \E row \in GuiRows, col \in GuiCols, new_value \in Values :
        \E res \in {set_cell(headers, rows, row, col, new_value)} :
            TkEdit("_finish_edit",
                   [NoArgs EXCEPT !.row = row, !.col = col,
                                  !.value = new_value],
                   res, res.ret = "true")

\* CsvEditorGUI(master): an empty editor, no file, nothing modified.
InitTk ==
    /\ headers = << >>
    /\ rows = << >>
    /\ fs = GuiFiles
    /\ gui = [NoGui EXCEPT !.front = "tk", !.open = TRUE]
    /\ saved = NoDoc
    /\ op = "idle"
    /\ args = NoArgs
    /\ ret = "none"
    /\ val = << >>
    /\ pre = [h |-> << >>, r |-> << >>]
    /\ given = NoLists
    /\ shared = NotShared

NextTk ==
    \/ TkNewFile
    \/ TkOpenFile
    \/ TkSaveFile
    \/ TkSaveAsFile
    \/ TkClose
    \/ TkInsertRowAbove
    \/ TkInsertRowBelow
    \/ TkDeleteRow
    \/ TkInsertColumnLeft
    \/ TkInsertColumnRight
    \/ TkDeleteColumn
    \/ TkClearCell
    \/ TkEditHeader
    \/ TkFinishEdit

\* Either window, from its start.
InitGui == InitQt \/ InitTk

NextGui == NextQt \/ NextTk

SpecGui == InitGui /\ [][NextGui]_vars

---------------------------------------------------------------------------
(* Properties. *)

\* Every row is as long as column_count() says.
Rectangular(h, r) == \A k \in 1 .. Len(r) : Len(r[k]) = column_count(h, r)

StructuralOps == {"insert_row", "remove_row", "insert_column", "remove_column"}

\* C1: from an empty, reset or loaded document, after every insert_row,
\* remove_row, insert_column and remove_column call, whatever it returns, every
\* row's length equals column_count().
C1_RectangularAfterStructuralOps ==
    \A k \in 1 .. Len(rows) : Len(rows[k]) = column_count(headers, rows)

\* C1 witness: remove_column has removed one of two columns from a document
\* with rows and headers.
C1_Witness ==
    /\ op = "remove_column"
    /\ ret = "true"
    /\ Len(pre.h) = 2
    /\ Len(headers) = 1
    /\ Len(rows) >= 1

\* C2: after every public operation (set_cell and set_header included) every
\* row's length equals len(headers) when headers is non-empty and the first
\* row's length when headers is empty.
C2_RectangularAfterEveryOp ==
    IF headers # << >>
    THEN \A k \in 1 .. Len(rows) : Len(rows[k]) = Len(headers)
    ELSE \A k \in 1 .. Len(rows) : Len(rows[k]) = Len(rows[1])

FalseReturningOps ==
    {"set_cell", "clear_cell", "insert_row", "remove_row", "insert_column",
     "remove_column"}

\* C3: a call of set_cell, clear_cell, insert_row, remove_row, insert_column or
\* remove_column that returns false leaves headers and rows as they were;
\* set_cell with row < 0 or row >= row_count(), insert_row with row < 0 or
\* row > row_count() and remove_row with row < 0 or row >= row_count() return
\* false.
C3_FalseLeavesDocumentUnchanged ==
    /\ (op \in FalseReturningOps /\ ret = "false")
          => (headers = pre.h /\ rows = pre.r)
    /\ (op = "set_cell" /\ (args.row < 0 \/ args.row >= Len(pre.r)))
          => ret = "false"
    /\ (op = "insert_row" /\ (args.row < 0 \/ args.row > Len(pre.r)))
          => ret = "false"
    /\ (op = "remove_row" /\ (args.row < 0 \/ args.row >= Len(pre.r)))
          => ret = "false"

\* C3 witness: remove_row(row_count()) on a document with rows returned false.
C3_Witness ==
    /\ op = "remove_row"
    /\ ret = "false"
    /\ pre.r # << >>
    /\ args.row = Len(pre.r)
    /\ rows = pre.r

\* C5: set_header with col < 0 returns false and leaves the headers unchanged,
\* whether or not the document has headers.
C5_NegativeHeaderIndexRejected ==
    (op = "set_header" /\ args.col < 0) => (ret = "false" /\ headers = pre.h)

\* C6: set_cell with a valid row and a negative col returns false, does not
\* raise and changes no cell.
C6_NegativeColumnRejected ==
    (op = "set_cell" /\ 0 <= args.row /\ args.row < Len(pre.r) /\ args.col < 0)
        => (ret = "false" /\ rows = pre.r /\ headers = pre.h)

\* C7: for a valid row and col >= 0, set_cell returns true; then
\* get_cell(row, col) is the value, the row's length is max(old length,
\* col + 1), every new cell other than col is "", and every other cell of the
\* row, every other row, the number of rows and the headers are unchanged.
C7_SetCellEffect ==
    (op = "set_cell" /\ 0 <= args.row /\ args.row < Len(pre.r) /\ args.col >= 0)
        => LET old == pre.r[args.row + 1]
               new == rows[args.row + 1]
           IN  /\ ret = "true"
               /\ get_cell(headers, rows, args.row, args.col) = args.value
               /\ Len(rows) = Len(pre.r)
               /\ Len(new) = Max2(Len(old), args.col + 1)
               /\ \A j \in 1 .. Len(new) :
                     j # args.col + 1
                        => new[j] = (IF j <= Len(old) THEN old[j] ELSE EMPTY)
               /\ \A k \in 1 .. Len(rows) : k # args.row + 1 => rows[k] = pre.r[k]
               /\ headers = pre.h

\* C7 witness: set_cell wrote "x" two cells past the end of the second row of
\* a two-row document, so a padding cell was created.
C7_Witness ==
    /\ op = "set_cell"
    /\ ret = "true"
    /\ Len(pre.r) = 2
    /\ args.row = 1
    /\ args.col = Len(pre.r[2]) + 1
    /\ args.value = X
    /\ pre.r[1] # << >>

\* C8: for 0 <= row <= row_count() and count >= 1, insert_row returns true;
\* row_count() grows by count, the rows at row .. row + count - 1 are
\* column_count() empty strings each, the rows before keep their place, the
\* rows from row on move down by count, and the headers are unchanged.
C8_InsertRowEffect ==
    (op = "insert_row" /\ 0 <= args.row /\ args.row <= Len(pre.r)
        /\ args.count >= 1)
        => /\ ret = "true"
           /\ Len(rows) = Len(pre.r) + args.count
           /\ \A k \in 1 .. Len(rows) :
                 IF k <= args.row THEN rows[k] = pre.r[k]
                 ELSE IF k <= args.row + args.count
                 THEN /\ Len(rows[k]) = column_count(pre.h, pre.r)
                      /\ Len(rows[k]) = column_count(headers, rows)
                      /\ \A j \in 1 .. Len(rows[k]) : rows[k][j] = EMPTY
                 ELSE rows[k] = pre.r[k - args.count]
           /\ headers = pre.h

\* C8 witness: insert_row(0) moved down the one row, holding "x", of a
\* document without headers.
C8_Witness ==
    /\ op = "insert_row"
    /\ ret = "true"
    /\ args.row = 0
    /\ Len(pre.r) = 1
    /\ pre.h = << >>
    /\ \E j \in 1 .. Len(pre.r[1]) : pre.r[1][j] = X
    /\ Len(rows) = 2

Min2(a, b) == IF a <= b THEN a ELSE b

\* C9: for 0 <= row < row_count() and count >= 1, remove_row returns true and
\* removes exactly the min(count, row_count() - row) rows from row on; the rows
\* before and after them stay, in order, and the headers are unchanged.
C9_RemoveRowEffect ==
    (op = "remove_row" /\ 0 <= args.row /\ args.row < Len(pre.r)
        /\ args.count >= 1)
        => LET removed == Min2(args.count, Len(pre.r) - args.row)
           IN  /\ ret = "true"
               /\ Len(rows) = Len(pre.r) - removed
               /\ \A k \in 1 .. Len(rows) :
                     rows[k] = (IF k <= args.row THEN pre.r[k]
                                ELSE pre.r[k + removed])
               /\ headers = pre.h

\* C9 witness: remove_row(0, 1) removed the first of two different rows.
C9_Witness ==
    /\ op = "remove_row"
    /\ ret = "true"
    /\ args.row = 0
    /\ args.count = 1
    /\ Len(pre.r) = 2
    /\ pre.r[1] # pre.r[2]
    /\ rows = <<pre.r[2]>>

\* C10: on a rectangular document, for 0 <= col <= column_count() and
\* count >= 1, insert_column returns true; then len(headers) and every row's
\* length are the old column_count() + count, the header slots and cells at
\* col .. col + count - 1 are "", what was at a column j < col is unchanged and
\* what was at a column j >= col is at j + count, also when there were no
\* headers before.  For col < 0 it returns false.
C10_InsertColumnEffect ==
    /\ (op = "insert_column" /\ args.col < 0) => ret = "false"
    /\ (op = "insert_column" /\ Rectangular(pre.h, pre.r) /\ 0 <= args.col
          /\ args.col <= column_count(pre.h, pre.r) /\ args.count >= 1)
        => LET w == column_count(pre.h, pre.r)
               Shifted(old, new) ==
                   \A j \in 1 .. Len(new) :
                       IF j <= args.col THEN new[j] = old[j]
                       ELSE IF j <= args.col + args.count THEN new[j] = EMPTY
                       ELSE new[j] = old[j - args.count]
           IN  /\ ret = "true"
               /\ Len(headers) = w + args.count
               /\ Len(rows) = Len(pre.r)
               /\ \A k \in 1 .. Len(rows) :
                     /\ Len(rows[k]) = w + args.count
                     /\ Shifted(pre.r[k], rows[k])
               /\ IF pre.h # << >> THEN Shifted(pre.h, headers)
                  ELSE \A j \in 1 .. Len(headers) : headers[j] = EMPTY

\* C10 witness: insert_column(0) on a document with a row holding "x" and no
\* headers.
C10_Witness ==
    /\ op = "insert_column"
    /\ ret = "true"
    /\ args.col = 0
    /\ pre.h = << >>
    /\ Len(pre.r) >= 1
    /\ Rectangular(pre.h, pre.r)
    /\ pre.r[1] = <<X>>
    /\ rows[1] = <<EMPTY, X>>

\* Whether a string holds a comma, a double quote or a newline.
HasSpecial(v) == \E k \in 1 .. Len(v) : v[k] \in {COMMA, QUOTE, CR, LF}

\* Whether no header and no cell of a document holds such a character.
PlainDoc(h, r) ==
    /\ \A j \in 1 .. Len(h) : ~HasSpecial(h[j])
    /\ \A k \in 1 .. Len(r) : \A j \in 1 .. Len(r[k]) : ~HasSpecial(r[k][j])

\* load_from_csv has just read the file that save_to_csv wrote, without a
\* column order, from the document saved.
RoundTrip ==
    /\ op = "load_from_csv"
    /\ ret = "none"
    /\ saved.valid
    /\ saved.order = NoOrder

\* C4: save_to_csv followed by load_from_csv of the file reproduces headers and
\* rows exactly for every document whose rows all have length column_count()
\* (empty headers, zero rows and empty cells included) and whose values hold
\* no comma, double quote or newline.
C4_RoundTrip ==
    (RoundTrip /\ Rectangular(saved.h, saved.r) /\ PlainDoc(saved.h, saved.r))
        => (headers = saved.h /\ rows = saved.r)

\* Whether the text of a document's file would start with U+FEFF.
StartsWithBom(h) == h # << >> /\ h[1] # << >> /\ h[1][1] = BOM

\* C4, amended: save_to_csv followed by load_from_csv of the file reproduces
\* headers and rows exactly for every document whose rows all have length
\* len(headers), whose values hold no comma, double quote or newline and whose
\* first header does not start with a byte-order mark.
C4_RoundTripAmended ==
    (RoundTrip /\ PlainDoc(saved.h, saved.r) /\ ~StartsWithBom(saved.h)
        /\ \A k \in 1 .. Len(saved.r) : Len(saved.r[k]) = Len(saved.h))
        => (headers = saved.h /\ rows = saved.r)

\* C4 witness: a document of one header "" and two rows, one of them holding
\* "", was saved and loaded again.
C4_Witness ==
    /\ RoundTrip
    /\ saved.h = <<EMPTY>>
    /\ saved.r = << <<EMPTY>>, << <<"a">> >> >>
    /\ headers = saved.h
    /\ rows = saved.r

\* C11: on a document with headers whose rows are all as long as the headers,
\* for col >= 0 and count >= 1, remove_column returns true and removes exactly
\* min(count, max(0, column_count() - col)) columns from col on, from the
\* headers and from every row; the other columns keep their order, and nothing
\* changes when col >= column_count().  For col < 0 it returns false.
C11_RemoveColumnEffect ==
    /\ (op = "remove_column" /\ args.col < 0) => ret = "false"
    /\ (op = "remove_column" /\ args.col >= 0 /\ args.count >= 1
          /\ pre.h # << >>
          /\ \A k \in 1 .. Len(pre.r) : Len(pre.r[k]) = Len(pre.h))
        => LET w == column_count(pre.h, pre.r)
               removed == Min2(args.count, Max2(0, w - args.col))
               Kept(old, new) ==
                   /\ Len(new) = Len(old) - removed
                   /\ \A j \in 1 .. Len(new) :
                         new[j] = (IF j <= args.col THEN old[j]
                                   ELSE old[j + removed])
           IN  /\ ret = "true"
               /\ Kept(pre.h, headers)
               /\ Len(rows) = Len(pre.r)
               /\ \A k \in 1 .. Len(rows) : Kept(pre.r[k], rows[k])
               /\ args.col >= w => (headers = pre.h /\ rows = pre.r)

\* C11 witness: remove_column(1, 2) removed the second and last column, the one
\* holding "x" in the row, of a document with two headers.
C11_Witness ==
    /\ op = "remove_column"
    /\ ret = "true"
    /\ args.col = 1
    /\ args.count = 2
    /\ pre.h = <<X, EMPTY>>
    /\ Len(pre.r) >= 1
    /\ pre.r[1] = <<EMPTY, X>>
    /\ headers = <<X>>
    /\ rows[1] = <<EMPTY>>

\* The records parsed from the file that load_from_csv has just read.
LoadedRecords == ReadCsv(fs[args.path].data)

\* load_from_csv has just returned normally.
Loaded == op = "load_from_csv" /\ ret = "none"

\* C12: when the file parses to at least one record, load_from_csv makes the
\* first record the headers and the other records, in order, the rows, each
\* padded on the right with "" to W, the largest field count of all records;
\* every field keeps its position and value, and every row's length, the
\* headers' length and column_count() all equal W.
C12_LoadPadsToWidest ==
    (Loaded /\ LoadedRecords # << >>)
        => LET recs == LoadedRecords
               W == MaxLen(recs)
               Padded(rec, new) ==
                   /\ Len(new) = W
                   /\ \A j \in 1 .. W :
                         new[j] = (IF j <= Len(rec) THEN rec[j] ELSE EMPTY)
           IN  /\ Padded(recs[1], headers)
               /\ Len(rows) = Len(recs) - 1
               /\ \A k \in 1 .. Len(rows) : Padded(recs[k + 1], rows[k])
               /\ column_count(headers, rows) = W

\* C12 witness: a file whose header record has one field and whose data record
\* has two was loaded, and the headers were widened to two.
C12_Witness ==
    /\ Loaded
    /\ Len(LoadedRecords) = 2
    /\ LoadedRecords[1] = << <<"a">> >>
    /\ Len(LoadedRecords[2]) = 2
    /\ headers = << <<"a">>, EMPTY >>

\* C13: load_from_csv fails exactly when the file cannot be opened or its
\* bytes cannot be decoded; it then raises the error to its caller and leaves
\* headers and rows as they were before the call, and otherwise it replaces
\* both: the caller never sees one of them replaced without the other.
C13_FailedLoadLeavesDocument ==
    op = "load_from_csv"
        => LET file == fs[args.path]
               fails == ~file.exists \/ Undecodable(file.data)
           IN  /\ fails <=> ret # "none"
               /\ fails => /\ ret \in {"FileNotFoundError", "UnicodeDecodeError"}
                           /\ headers = pre.h
                           /\ rows = pre.r
               /\ ~fails => /\ headers = LoadedDoc(LoadedRecords).h
                            /\ rows = LoadedDoc(LoadedRecords).r

\* C13 witness: loading a file with an undecodable byte after a complete first
\* record raised, and the ragged document held before is still there.
C13_Witness ==
    /\ op = "load_from_csv"
    /\ ret = "UnicodeDecodeError"
    /\ fs[args.path].data = <<"a", LF, INVALID>>
    /\ pre.h = <<X>>
    /\ pre.r = << <<X, X>> >>
    /\ headers = pre.h
    /\ rows = pre.r

\* save_to_csv has just written the file.
Saved == op = "save_to_csv" /\ ret = "none"

\* The in-memory record rec, padded on the right with "" to the width w.
Normalized(rec, w) == [j \in 1 .. Max2(w, Len(rec)) |->
                          IF j <= Len(rec) THEN rec[j] ELSE EMPTY]

\* The width save_to_csv normalizes to: the longest of the headers and the rows.
SaveWidth(h, r) == Max2(Len(h), MaxLen(r))

\* Whether every index of a column order is a column of the normalized records.
ValidOrder(order, w) == \A i \in 1 .. Len(order) : 0 <= order[i] /\ order[i] < w

\* C14: whenever a column order of valid indices is given to save_to_csv (a
\* permutation, a subset or the empty sequence), every record written, header
\* and data, has len(column_order) fields, and its field i is field
\* column_order[i] of the normalized in-memory record.
C14_ColumnOrderApplied ==
    (Saved /\ args.order.given
        /\ ValidOrder(args.order.order, SaveWidth(headers, rows)))
        => LET order == args.order.order
               w == SaveWidth(headers, rows)
               Picked(rec) == [i \in 1 .. Len(order) |->
                                  Normalized(rec, w)[order[i] + 1]]
           IN  fs[args.path].data =
                   WriteRows(<<Picked(headers)>>
                             \o [k \in 1 .. Len(rows) |-> Picked(rows[k])])

\* C15: save_to_csv leaves headers and rows exactly as they were, whether it
\* writes the file or raises, with or without a column order, and whether or
\* not the rows are ragged.
C15_SaveLeavesDocument ==
    op = "save_to_csv" => (headers = pre.h /\ rows = pre.r)

\* C15 witness: a document whose one row is shorter than its two headers was
\* saved with the column order [1, 0] and is unchanged.
C15_Witness ==
    /\ Saved
    /\ args.order = Order(<<1, 0>>)
    /\ Len(pre.h) = 2
    /\ Len(pre.r) = 1
    /\ Len(pre.r[1]) = 1
    /\ headers = pre.h
    /\ rows = pre.r

\* C16: without a column order save_to_csv writes the header record and then
\* one record per row, in order; every record has W fields, W being the longest
\* of the headers and the rows (len(headers) without rows), and is the
\* in-memory headers or row padded on the right with "".
C16_SavePadsToWidest ==
    (Saved /\ ~args.order.given)
        => LET W == IF rows = << >> THEN Len(headers)
                    ELSE SaveWidth(headers, rows)
           IN  fs[args.path].data =
                   WriteRows(<<Normalized(headers, W)>>
                             \o [k \in 1 .. Len(rows) |-> Normalized(rows[k], W)])

\* C16 witness: a document with one header and rows of two cells and of no
\* cell was saved without a column order.
C16_Witness ==
    /\ Saved
    /\ ~args.order.given
    /\ Len(headers) = 1
    /\ Len(rows) = 2
    /\ Len(rows[1]) = 2
    /\ Len(rows[2]) = 0

\* C17: get_cell(row, col) returns the stored value when 0 <= row <
\* row_count() and 0 <= col < the length of that row, and "" for every other
\* pair of integers (negative, past the end, short row); it never raises and
\* leaves the document as it was.
C17_GetCellTotal ==
    op = "get_cell"
        => /\ ret = "value"
           /\ val = (IF /\ 0 <= args.row
                        /\ args.row < Len(rows)
                        /\ 0 <= args.col
                        /\ args.col < Len(rows[args.row + 1])
                     THEN rows[args.row + 1][args.col + 1]
                     ELSE EMPTY)
           /\ headers = pre.h
           /\ rows = pre.r

\* C17 witness: get_cell(1, 1) returned the "x" stored in the second row of a
\* document whose first row is shorter.
C17_Witness ==
    /\ op = "get_cell"
    /\ args.row = 1
    /\ args.col = 1
    /\ Len(rows) = 2
    /\ Len(rows[1]) < 2
    /\ rows[2] = <<EMPTY, X>>
    /\ val = X

\* C18: get_header(col) returns headers[col] when 0 <= col < len(headers) and
\* otherwise "Column " followed by col + 1, for every integer col and every
\* document; it never raises and leaves the document as it was.
C18_GetHeaderTotal ==
    op = "get_header"
        => /\ ret = "value"
           /\ val = (IF 0 <= args.col /\ args.col < Len(headers)
                     THEN headers[args.col + 1]
                     ELSE Placeholder(args.col))
           /\ headers = pre.h
           /\ rows = pre.r

\* C19: the document shares no list with its caller, however it was populated
\* (constructor with data and headers, new_sheet_with_defaults, load_from_csv):
\* a method of the document never changes a list the caller holds, and a
\* change the caller makes to a list it holds never changes headers or rows.
C19_NoSharedSequences ==
    [][/\ (op = "idle" /\ op' # "idle") => given' = given
       /\ (op = "idle" /\ op' = "idle") => (headers' = headers /\ rows' = rows)
      ]_vars

\* C20: loading an empty file leaves no headers and no rows (row_count() and
\* column_count() are 0) whatever the document held before; and when the file
\* has records, the first record is the start of the headers and is not among
\* the rows, which are the other records.
C20_EmptyFileAndFirstRecord ==
    Loaded
        => /\ fs[args.path].data = << >>
                => /\ headers = << >>
                   /\ rows = << >>
                   /\ row_count(headers, rows) = 0
                   /\ column_count(headers, rows) = 0
           /\ LoadedRecords # << >>
                => /\ Len(headers) >= Len(LoadedRecords[1])
                   /\ SubSeq(headers, 1, Len(LoadedRecords[1])) = LoadedRecords[1]
                   /\ Len(rows) = Len(LoadedRecords) - 1

\* C20 witness: an empty file was loaded into a document that had a header and
\* a row.
C20_Witness ==
    /\ Loaded
    /\ fs[args.path].data = << >>
    /\ pre.h = <<X>>
    /\ pre.r = << <<X, X>> >>
    /\ headers = << >>
    /\ rows = << >>

\* C21: new_sheet_with_defaults(hs) does not raise and, whatever the document
\* held before, leaves headers equal to hs, row_count() = 0 and
\* column_count() = len(hs).
C21_NewSheetResets ==
    op = "new_sheet_with_defaults"
        => /\ ret = "none"
           /\ headers = args.list
           /\ row_count(headers, rows) = 0
           /\ column_count(headers, rows) = Len(args.list)

\* C21 witness: new_sheet_with_defaults(["x", ""]) replaced a document that had
\* rows and other headers.
C21_Witness ==
    /\ op = "new_sheet_with_defaults"
    /\ args.list = <<X, EMPTY>>
    /\ pre.r # << >>
    /\ pre.h # args.list
    /\ headers = <<X, EMPTY>>
    /\ rows = << >>

\* C22: clear_cell(row, col) does what set_cell(row, col, "") does from the
\* same document, for all row and col: the same result (or the same exception)
\* and the same headers and rows.
C22_ClearCellIsSetCellEmpty ==
    op = "clear_cell"
        => LET same == set_cell(pre.h, pre.r, args.row, args.col, EMPTY)
           IN  /\ ret = same.ret
               /\ headers = same.h
               /\ rows = same.r

\* C22 witness: clear_cell one past the end of a row holding "x" returned true
\* and widened the row by an empty cell.
C22_Witness ==
    /\ op = "clear_cell"
    /\ ret = "true"
    /\ args.row = 0
    /\ pre.r[1] = <<X>>
    /\ args.col = 1
    /\ rows[1] = <<X, EMPTY>>

\* view_data has just rendered a document that has headers or rows.
Viewed == op = "view_data" /\ (headers # << >> \/ rows # << >>)

\* A value as the claim has it rendered under the width w: in full when it has
\* at most w characters, else its first w - 3 characters and "...".
Rendered(v, w) ==
    IF Len(v) <= w THEN v ELSE [j \in 1 .. (w - 3) |-> v[j]] \o DOTS

\* C23: for every max_col_width >= 1 and every document, each header and each
\* cell is rendered by view_data with at most max_col_width characters: in
\* full when it is that short, else as its first max_col_width - 3 characters
\* and "..."; so no column is wider than max_col_width.
C23_RenderedWithinWidth ==
    (Viewed /\ args.max_col_width >= 1)
        => LET w == args.max_col_width
               Ok(v, shown) == Len(shown) <= w /\ shown = Rendered(v, w)
           IN  /\ \A c \in 1 .. Len(val.headers) :
                     Ok(get_header(headers, rows, c - 1).val, val.headers[c])
               /\ \A k \in 1 .. Len(val.display_rows) :
                     \A c \in 1 .. Len(val.display_rows[k]) :
                         Ok(get_cell(headers, rows, k - 1, c - 1),
                            val.display_rows[k][c])

\* C24: on a document with headers or rows, for every max_rows, view_data
\* shows the first min(max_rows, row_count()) rows in order (none when
\* max_rows <= 0); the "more rows" line is there exactly when rows are left
\* out, and counts them; the last line gives row_count() and column_count();
\* and the document is unchanged.
C24_RowsShownAndTrailer ==
    Viewed
        => LET count == row_count(headers, rows)
               cols == column_count(headers, rows)
               shown == IF args.max_rows <= 0 THEN 0
                        ELSE Min2(args.max_rows, count)
               hidden == count - shown
               Line(rec) ==
                   JoinWith(SEP, [c \in 1 .. Len(rec) |->
                                     Ljust(rec[c], val.col_widths[c])])
           IN  /\ Len(val.display_rows) = shown
               /\ \A k \in 1 .. shown :
                     /\ val.display_rows[k] =
                            [c \in 1 .. cols |->
                                Truncate(get_cell(headers, rows, k - 1, c - 1),
                                         args.max_col_width)]
                     /\ val.lines[2 + k] = Line(val.display_rows[k])
               /\ Len(val.lines) = 3 + shown + (IF hidden > 0 THEN 1 ELSE 0)
               /\ hidden > 0
                     => val.lines[3 + shown] =
                            MORE_OPEN \o Str(hidden) \o MORE_CLOSE
               /\ val.lines[Len(val.lines)] =
                      <<LF>> \o TOTAL \o Str(count) \o ROWS_ \o Str(cols)
                          \o COLUMNS_
               /\ headers = pre.h
               /\ rows = pre.r

\* Whether a string holds a comma, a double quote and a newline.
HasAllSpecial(v) ==
    /\ \E k \in 1 .. Len(v) : v[k] = COMMA
    /\ \E k \in 1 .. Len(v) : v[k] = QUOTE
    /\ \E k \in 1 .. Len(v) : v[k] = LF

---------------------------------------------------------------------------
\* What a CsvEditor method leaves and returns is what the table model's
\* method left and returned.
SameAsCore(res) == headers = res.h /\ rows = res.r /\ ret = res.ret

\* C26: from the same headers and rows, with the same index and count, each
\* editing method of CsvTableModel returns the same result and leaves the same
\* headers and rows as the corresponding method of CsvEditor, for indices out
\* of range too.
C26_TableModelMatchesCore ==
    /\ op = "insertRows" =>
          SameAsCore(insert_row(pre.h, pre.r, args.row, args.count))
    /\ op = "removeRows" =>
          SameAsCore(remove_row(pre.h, pre.r, args.row, args.count))
    /\ op = "insertColumns" =>
          SameAsCore(insert_column(pre.h, pre.r, args.col, args.count))
    /\ op = "removeColumns" =>
          SameAsCore(remove_column(pre.h, pre.r, args.col, args.count))
    /\ op = "setData" =>
          SameAsCore(set_cell(pre.h, pre.r, args.row, args.col, args.value))
    /\ op = "setHeaderData" =>
          SameAsCore(set_header(pre.h, pre.r, args.col, args.value))

---------------------------------------------------------------------------
\* C27: insert_column(col, count) leaves the label get_header reports for
\* every column before col as it was, also on a document that has rows but no
\* stored headers.
C27_InsertColumnKeepsEarlierLabels ==
    op = "insert_column" /\ ret = "true" =>
        \A j \in 0 .. args.col - 1 :
            get_header(headers, rows, j).val = get_header(pre.h, pre.r, j).val

---------------------------------------------------------------------------
\* The label of column j, as get_header reports it.
Label(h, r, j) == get_header(h, r, j).val

\* C28: when CsvCLI.insert_column(col, header) with a non-empty header returns
\* True on a document whose rows are as long as column_count(), there is one
\* column more, the new column carries the header, every other column keeps
\* its label, and every row is still as long as column_count().
C28_CliInsertColumnAddsOneLabelled ==
    /\ op = "CsvCLI.insert_column"
    /\ ret = "true"
    /\ args.value # EMPTY
    /\ Rectangular(pre.h, pre.r)
    => /\ column_count(headers, rows) = column_count(pre.h, pre.r) + 1
       /\ \E k \in 0 .. column_count(pre.h, pre.r) :
             /\ Label(headers, rows, k) = args.value
             /\ \A j \in 0 .. k - 1 :
                   Label(headers, rows, j) = Label(pre.h, pre.r, j)
             /\ \A j \in k + 1 .. column_count(pre.h, pre.r) :
                   Label(headers, rows, j) = Label(pre.h, pre.r, j - 1)
       /\ Rectangular(headers, rows)

---------------------------------------------------------------------------
\* C29: in the Qt window, while the user has made no edit since the last new
\* sheet, successful load or successful save, the dirty flag is not set, also
\* after a flash timer of an earlier insertion has run out.
C29_DirtyOnlyAfterEdit ==
    gui.front = "qt" /\ gui.open /\ ~gui.edited => ~gui.dirty

---------------------------------------------------------------------------
\* The handlers that replace or destroy the document.
Replacing ==
    {"new_file", "open_file", "close", "_new_file", "_open_file", "_on_closing"}

\* The handler was told to give up: the prompt was cancelled, or answered
\* "Yes" and the save failed or its dialog was cancelled.
GaveUp ==
    \/ gui.prompt = "cancel"
    \/ gui.prompt = "yes" /\ gui.save \in {"failed", "cancelled"}

\* C30: in both windows, New, Open and closing the window replace or destroy
\* a document whose modified flag is set only after the answer "No" to the
\* unsaved-changes prompt; and when the prompt is cancelled, or answered "Yes"
\* and the save fails or is cancelled, the document, the current path and the
\* modified flag are left as they were.
C30_UnsavedNeverDiscardedSilently ==
    op \in Replacing /\ gui.was.dirty =>
        /\ gui.discarded => gui.prompt = "no"
        /\ GaveUp => /\ gui.open
                     /\ headers = pre.h
                     /\ rows = pre.r
                     /\ gui.path = gui.was.path
                     /\ gui.dirty = gui.was.dirty

============================================================================
